---- MODULE Spec2Model ----
(***************************************************************************)
(* A model of the two-stage LESS parser of rust-less: the token-tree       *)
(* lexer (src/src/lexer/mod.rs) and the item-level structural parser       *)
(* (src/src/parser/mod.rs).  Both are pure functions built from chumsky    *)
(* combinators; each combinator is translated to an operator that takes    *)
(* the input and an offset and returns a result record                     *)
(*        [st |-> "ok" | "fail" | "abort", pos |-> offset, val |-> value]. *)
(* "fail" is a recoverable parse failure (the caller rewinds), "abort" is  *)
(* a run that never returns a value: a repeated() whose item succeeded     *)
(* without consuming input (chumsky panics in debug builds and loops       *)
(* forever in release builds) or a panicking unwrap().                     *)
(*                                                                         *)
(* A character is a one-character string; the source text is a sequence    *)
(* of characters; offsets are 0-based as in the Rust code, so the          *)
(* character at offset o of s is s[o + 1].                                 *)
(***************************************************************************)
EXTENDS Integers, Sequences, FiniteSets, TLC

VARIABLES
    input,     \* the source text handed to lexer()
    pc,        \* "start" | "lexed" | "relexed" | "parsed"
    lexed,     \* result of lexer().parse(input)
    pick,      \* the spanned token-tree chosen for re-lexing
    relexed,   \* result of lexer().parse(input[pick.span])
    parsed,    \* result of parser().parse(tts) or of a text parser
    stream,    \* the Stream object of src/src/stream.rs
    ideal,     \* what a client of the Stream expects of it, and its last call
    tokenizer  \* the Tokenizer of src/src/tokenizer/mod.rs and its last token

vars == <<input, pc, lexed, pick, relexed, parsed, stream, ideal, tokenizer>>

\* Bounds of the model: the number of words an input is built from.
MaxLen == 4
MaxTokLen == 3
MaxWords == 4
MaxItems == 3
Capacity == 2
MaxCalls == 5
MaxTokens == 3

----------------------------------------------------------------------------
(* Characters and the predicates of src/src/lexer/helpers.rs *)

EOF == "EOF"

\* The character at offset o, or EOF past the end (chars.next() == None).
At(s, o) == IF o >= 0 /\ o < Len(s) THEN s[o + 1] ELSE EOF

Slice(s, a, b) == IF b > a THEN SubSeq(s, a + 1, b) ELSE <<>>

LetterChars ==
    {"a", "b", "c", "d", "e", "f", "g", "h", "i", "j", "k", "l", "m", "n", "o",
     "p", "q", "r", "s", "t", "u", "v", "w", "x", "y", "z", "E", "A", "Z"}

DigitChars == {"0", "1", "2", "3", "4", "5", "6", "7", "8", "9"}

\* One code point >= 0x80, written by its name.
NonAsciiChars == {"U+00E9"}

\* char::is_whitespace for the characters the model uses.
WhitespaceChars == {" ", "\n", "\t"}

is_digit(c) == c \in DigitChars

is_letter(c) == c \in LetterChars

is_non_ascii(c) == c \in NonAsciiChars

is_name_start(c) == is_letter(c) \/ is_non_ascii(c) \/ c = "_"

is_name(c) == is_name_start(c) \/ is_digit(c) \/ c = "-"

\* is_valid_escape on the suffix of s that starts at offset o.
is_valid_escape(s, o) == At(s, o) = "\\" /\ At(s, o + 1) # "\n"

\* would_start_identifier on the suffix of s that starts at offset o.
would_start_identifier(s, o) ==
    IF At(s, o) = "-"
    THEN IF At(s, o + 1) # EOF /\ is_name_start(At(s, o + 1)) THEN TRUE
         ELSE IF At(s, o + 1) = "-" THEN TRUE
         ELSE is_valid_escape(s, o + 1)
    ELSE IF At(s, o) # EOF /\ is_name_start(At(s, o)) THEN TRUE
    ELSE IF At(s, o) = "\\" THEN is_valid_escape(s, o)
    ELSE FALSE

----------------------------------------------------------------------------
(* Results of a combinator *)

Ok(p, v) == [st |-> "ok", pos |-> p, val |-> v]
Fail == [st |-> "fail", pos |-> 0, val |-> <<>>]
Abort == [st |-> "abort", pos |-> 0, val |-> <<>>]

\* choice((...)): the result of the first alternative that does not fail,
\* or the failure of the last one.
RECURSIVE choice(_)
choice(rs) == IF Len(rs) = 1 \/ rs[1].st # "fail" THEN rs[1] ELSE choice(Tail(rs))

----------------------------------------------------------------------------
(* Tokens and token-trees of src/src/lexer/mod.rs *)

\* Delim::open and Delim::close
open(delim) ==
    CASE delim = "Paren" -> "("
      [] delim = "Brace" -> "{"
      [] delim = "Bracket" -> "["

\* close as it would be if every arm returned ')'.
close_paren_only(delim) == ")"

close(delim) ==
    CASE delim = "Paren" -> ")"
      [] delim = "Brace" -> "}"
      [] delim = "Bracket" -> "]"

\* enum Token: kind names the variant, text holds a string or character
\* payload, num the parts a Number is computed from.
Tok(kind, text, num) == [kind |-> kind, text |-> text, num |-> num]

\* TokenTree::Token(t) and TokenTree::Tree(delim, items)
TTToken(t) == [type |-> "Token", tok |-> t, delim |-> "", items |-> <<>>]
TTTree(delim, items) ==
    [type |-> "Tree", tok |-> Tok("", <<>>, <<>>), delim |-> delim, items |-> items]

\* e.span() of map_with: the half-open range the parser consumed.
SpanOf(start, end) == [start |-> start, end |-> end]

\* Spanned<T> = (T, Span)
Spanned(tt, span) == [tt |-> tt, span |-> span]

----------------------------------------------------------------------------
(* The token parsers of src/src/lexer/mod.rs *)

\* Offset of the first character at or after o that is not whitespace.
RECURSIVE WhitespaceEnd(_, _)
WhitespaceEnd(s, o) ==
    IF At(s, o) \in WhitespaceChars THEN WhitespaceEnd(s, o + 1) ELSE o

\* text::whitespace().at_least(1).to(Token::Whitespace)
whitespace(s, o) ==
    LET on_e(e) ==
        IF e > o THEN Ok(e, Tok("Whitespace", <<>>, <<>>)) ELSE Fail
    IN  on_e(WhitespaceEnd(s, o))

\* any().and_is(just('\n').not()).repeated(): up to the newline or the end.
RECURSIVE LineEnd(_, _)
LineEnd(s, o) ==
    IF At(s, o) = EOF \/ At(s, o) = "\n" THEN o ELSE LineEnd(s, o + 1)

line_comment(s, o) ==
    IF At(s, o) = "/" /\ At(s, o + 1) = "/"
    THEN LET on_e(e) ==
                 Ok(e, Tok("Comment", Slice(s, o + 2, e), <<>>))
         IN  on_e(LineEnd(s, o + 2))
    ELSE Fail

\* any().and_is(just("*/").not()).repeated(): up to the next "*/" or the end.
RECURSIVE BlockBodyEnd(_, _)
BlockBodyEnd(s, o) ==
    IF At(s, o) = EOF \/ (At(s, o) = "*" /\ At(s, o + 1) = "/")
    THEN o
    ELSE BlockBodyEnd(s, o + 1)

\* block_comment as it would be if the closing "*/" were required.
block_comment_closed(s, o) ==
    IF At(s, o) = "/" /\ At(s, o + 1) = "*" /\ At(s, BlockBodyEnd(s, o + 2)) # EOF
    THEN Ok(BlockBodyEnd(s, o + 2) + 2,
            Tok("Comment", Slice(s, o + 2, BlockBodyEnd(s, o + 2)), <<>>))
    ELSE Fail

\* The body is followed by choice((just("*/").ignored(), end())).
block_comment(s, o) ==
    IF At(s, o) = "/" /\ At(s, o + 1) = "*"
    THEN LET on_b(b) ==
             Ok(IF At(s, b) = EOF THEN b ELSE b + 2,
                Tok("Comment", Slice(s, o + 2, b), <<>>))
         IN  on_b(BlockBodyEnd(s, o + 2))
    ELSE Fail

\* any().filter(is_name).repeated().to_slice(): the run may be empty.
RECURSIVE NameEnd(_, _)
NameEnd(s, o) ==
    IF At(s, o) # EOF /\ is_name(At(s, o)) THEN NameEnd(s, o + 1) ELSE o

ident_sequence(s, o) == LET on_e(e) ==
                                Ok(e, Slice(s, o, e))
                        IN  on_e(NameEnd(s, o))

peek_ident_start(s, o) == IF would_start_identifier(s, o) THEN Ok(o, <<>>) ELSE Fail

ident(s, o) ==
    IF peek_ident_start(s, o).st = "ok"
    THEN LET on_r(r) ==
                 Ok(r.pos, Tok("Ident", r.val, <<>>))
         IN  on_r(ident_sequence(s, o))
    ELSE Fail

hash(s, o) ==
    IF At(s, o) = "#"
    THEN LET on_r(r) ==
                 Ok(r.pos, Tok("Hash", r.val, <<>>))
         IN  on_r(ident_sequence(s, o + 1))
    ELSE Fail

\* any().and_is(just(quote).not()).repeated(): up to the quote or the end.
RECURSIVE QuoteEnd(_, _, _)
QuoteEnd(s, o, quote) ==
    IF At(s, o) = EOF \/ At(s, o) = quote THEN o ELSE QuoteEnd(s, o + 1, quote)

string_with_quote(s, o, quote) ==
    IF At(s, o) = quote
    THEN LET on_e(e) ==
             IF At(s, e) = quote
             THEN Ok(e + 1, Tok("String", Slice(s, o + 1, e), <<>>))
             ELSE Fail
         IN  on_e(QuoteEnd(s, o + 1, quote))
    ELSE Fail

string(s, o) == choice(<<string_with_quote(s, o, "\""), string_with_quote(s, o, "'")>>)

\* opt_sign: the sign and the offset after it.
opt_sign(s, o) ==
    IF At(s, o) = "+" THEN Ok(o + 1, 1)
    ELSE IF At(s, o) = "-" THEN Ok(o + 1, -1)
    ELSE Ok(o, 1)

RECURSIVE DigitsEnd(_, _)
DigitsEnd(s, o) == IF At(s, o) \in DigitChars THEN DigitsEnd(s, o + 1) ELSE o

DigitValue(c) == CHOOSE n \in 0..9 : ToString(n) = c

\* The digits without their leading zeros.
RECURSIVE Significant(_)
Significant(ds) ==
    IF ds # <<>> /\ Head(ds) = "0" THEN Significant(Tail(ds)) ELSE ds

U32MaxDigits == <<"4", "2", "9", "4", "9", "6", "7", "2", "9", "5">>

\* Whether digit string a is above digit string b of the same length.
RECURSIVE DigitsAbove(_, _)
DigitsAbove(a, b) ==
    IF a = <<>> THEN FALSE
    ELSE IF Head(a) # Head(b) THEN DigitValue(Head(a)) > DigitValue(Head(b))
    ELSE DigitsAbove(Tail(a), Tail(b))

\* digits.parse::<u32>() is Err exactly when the value is above u32::MAX.
ExceedsU32(ds) ==
    LET on_sig(sig) ==
        \/ Len(sig) > Len(U32MaxDigits)
        \/ Len(sig) = Len(U32MaxDigits) /\ DigitsAbove(sig, U32MaxDigits)
    IN  on_sig(Significant(ds))

\* text::digits(10).to_slice().map(|digits| (digits.parse().unwrap(), digits.len())):
\* the value and the number of digits; the unwrap panics above u32::MAX.
\* The u32 is held as its decimal numeral without leading zeros (<<>> for 0).
dec_digits(s, o) ==
    LET on_e(e) ==
        IF e = o THEN Fail
        ELSE IF ExceedsU32(Slice(s, o, e)) THEN Abort
        ELSE Ok(e, <<Significant(Slice(s, o, e)), e - o>>)
    IN  on_e(DigitsEnd(s, o))

\* just('.').ignore_then(dec_digits())
dot_digits(s, o) == IF At(s, o) = "." THEN dec_digits(s, o + 1) ELSE Fail

\* Integer and fractional parts: <<i, f, d>>.
number_mantissa(s, o) ==
    LET on_int(int) ==
        IF int.st = "abort" THEN Abort
        ELSE IF int.st = "ok"
        THEN LET on_frac(frac) ==
                 IF frac.st = "abort" THEN Abort
                 ELSE IF frac.st = "ok"
                 THEN Ok(frac.pos, <<int.val[1], frac.val[1], frac.val[2]>>)
                 ELSE Ok(int.pos, <<int.val[1], <<>>, 0>>)
             IN  on_frac(dot_digits(s, int.pos))
        ELSE LET on_only(only) ==
                 IF only.st = "ok"
                 THEN Ok(only.pos, <<<<>>, only.val[1], only.val[2]>>)
                 ELSE only
             IN  on_only(dot_digits(s, o))
    IN  on_int(dec_digits(s, o))

\* one_of("eE").ignore_then(opt_sign().then(dec_digits())).or_not(): <<t, e>>.
number_exponent(s, o) ==
    IF At(s, o) \in {"e", "E"}
    THEN LET on_sign(sign) ==
             LET on_digits(digits) ==
                 IF digits.st = "abort" THEN Abort
                 ELSE IF digits.st = "ok" THEN Ok(digits.pos, <<sign.val, digits.val[1]>>)
                 ELSE Ok(o, <<1, <<>>>>)
             IN  on_digits(dec_digits(s, sign.pos))
         IN  on_sign(opt_sign(s, o + 1))
    ELSE Ok(o, <<1, <<>>>>)

\* The Number token holds <<s, i, f, d, t, e>>, the operands of
\* s * (i + f * 10^-d) * 10^(t * e).
number(s, o) ==
    LET on_sign(sign) ==
        LET on_mant(mant) ==
            IF mant.st # "ok" THEN mant
            ELSE LET on_exp(exp) ==
                     IF exp.st # "ok" THEN exp
                     ELSE Ok(exp.pos, Tok("Number", <<>>, <<sign.val>> \o mant.val \o exp.val))
                 IN  on_exp(number_exponent(s, mant.pos))
        IN  on_mant(number_mantissa(s, sign.pos))
    IN  on_sign(opt_sign(s, o))

\* any().map(Token::Symbol)
symbol_token(s, o) ==
    IF At(s, o) # EOF THEN Ok(o + 1, Tok("Symbol", <<At(s, o)>>, <<>>)) ELSE Fail

token(s, o) ==
    choice(<<whitespace(s, o), line_comment(s, o), block_comment(s, o), ident(s, o),
             hash(s, o), string(s, o), number(s, o), symbol_token(s, o)>>)

RECURSIVE token_tree(_, _), tree(_, _, _), tree_items(_, _, _)

\* token_tree.and_is(just(delim.close()).not()).repeated().collect()
\* val is the sequence of spanned token-trees, pos the offset it stopped at.
tree_items(s, o, delim) ==
    LET on_tt(tt) ==
        IF tt.st = "abort" THEN Abort
        ELSE IF tt.st = "fail" \/ At(s, o) = close(delim) THEN Ok(o, <<>>)
        ELSE IF tt.pos = o THEN Abort
        ELSE LET on_rest(rest) ==
                 IF rest.st = "abort" THEN Abort
                 ELSE Ok(rest.pos, <<tt.val>> \o rest.val)
             IN  on_rest(tree_items(s, tt.pos, delim))
    IN  on_tt(token_tree(s, o))

\* just(open).ignore_then(items).then_ignore(just(close))
tree(s, o, delim) ==
    IF At(s, o) # open(delim) THEN Fail
    ELSE LET on_items(items) ==
             IF items.st = "abort" THEN Abort
             ELSE IF At(s, items.pos) = close(delim)
             THEN Ok(items.pos + 1, TTTree(delim, items.val))
             ELSE Fail
         IN  on_items(tree_items(s, o + 1, delim))

\* token().map(TokenTree::Token)
token_as_tree(s, o) ==
    LET on_t(t) ==
            IF t.st = "ok" THEN Ok(t.pos, TTToken(t.val)) ELSE t
    IN  on_t(token(s, o))

\* choice((tree(Paren), tree(Brace), tree(Bracket), token().map(Token)))
\* .map_with(|tt, e| (tt, e.span()))
token_tree(s, o) ==
    LET on_r(r) ==
            IF r.st = "ok" THEN Ok(r.pos, Spanned(r.val, SpanOf(o, r.pos))) ELSE r
    IN  on_r(choice(<<tree(s, o, "Paren"), tree(s, o, "Brace"), tree(s, o, "Bracket"),
                      token_as_tree(s, o)>>))

RECURSIVE lexer_items(_, _)

\* lexer_items as it would be if the token-trees were padded(): whitespace
\* before a token-tree is skipped and belongs to no token.
lexer_items_padded(s, o) ==
    LET on_w(w) ==
        LET on_tt(tt) ==
            IF tt.st = "abort" THEN Abort
            ELSE IF tt.st = "fail" THEN Ok(w, <<>>)
            ELSE IF tt.pos = w THEN Abort
            ELSE LET on_rest(rest) ==
                     IF rest.st = "abort" THEN Abort
                     ELSE Ok(rest.pos, <<tt.val>> \o rest.val)
                 IN  on_rest(lexer_items(s, tt.pos))
        IN  on_tt(token_tree(s, w))
    IN  on_w(WhitespaceEnd(s, o))

\* token_tree().repeated().collect()
lexer_items(s, o) ==
    LET on_tt(tt) ==
        IF tt.st = "abort" THEN Abort
        ELSE IF tt.st = "fail" THEN Ok(o, <<>>)
        ELSE IF tt.pos = o THEN Abort
        ELSE LET on_rest(rest) ==
                 IF rest.st = "abort" THEN Abort
                 ELSE Ok(rest.pos, <<tt.val>> \o rest.val)
             IN  on_rest(lexer_items(s, tt.pos))
    IN  on_tt(token_tree(s, o))

\* lexer().parse(s).into_result(): parse() accepts only if the whole input
\* was consumed.  st is "ok" (val is the Vec), "err" or "abort".
lexer(s) ==
    LET on_r(r) ==
        IF r.st = "abort" THEN [st |-> "abort", val |-> <<>>]
        ELSE IF r.pos = Len(s) THEN [st |-> "ok", val |-> r.val]
        ELSE [st |-> "err", val |-> <<>>]
    IN  on_r(lexer_items(s, 0))

----------------------------------------------------------------------------
(* The structural parser of src/src/parser/mod.rs.  Its input is a slice   *)
(* of spanned token-trees; i is the number of token-trees consumed.        *)

EndOfInput == Spanned(TTToken(Tok("EndOfInput", <<>>, <<>>)), SpanOf(0, 0))

\* The token-tree at offset i, or EndOfInput past the end of the slice.
TAt(tts, i) == IF i >= 0 /\ i < Len(tts) THEN tts[i + 1] ELSE EndOfInput

IsTok(x, kind) == x.tt.type = "Token" /\ x.tt.tok.kind = kind

\* TokenTree::Token(Token::Whitespace | Token::Comment(_))
is_junk(x) == IsTok(x, "Whitespace") \/ IsTok(x, "Comment")

\* TokenTree::Token(Token::Symbol(s)) if s == symbol
is_symbol(x, c) == IsTok(x, "Symbol") /\ x.tt.tok.text = <<c>>

\* TokenTree::Tree(delim, _)
is_tree(x, delim) == x.tt.type = "Tree" /\ x.tt.delim = delim

RECURSIVE strip_trailing_junk(_)
strip_trailing_junk(value) ==
    IF value # <<>> /\ is_junk(value[Len(value)])
    THEN strip_trailing_junk(SubSeq(value, 1, Len(value) - 1))
    ELSE value

\* util::junk: zero or more whitespace or comment tokens.
RECURSIVE JunkEnd(_, _)
JunkEnd(tts, i) == IF is_junk(TAt(tts, i)) THEN JunkEnd(tts, i + 1) ELSE i

util_junk(tts, i) == Ok(JunkEnd(tts, i), <<>>)

util_symbol(tts, i, c) == IF is_symbol(TAt(tts, i), c) THEN Ok(i + 1, <<>>) ELSE Fail

util_ident(tts, i) ==
    IF IsTok(TAt(tts, i), "Ident") THEN Ok(i + 1, TAt(tts, i).tt.tok.text) ELSE Fail

\* symbol('@').ignore_then(ident())
util_at_ident(tts, i) ==
    IF util_symbol(tts, i, "@").st = "ok" THEN util_ident(tts, i + 1) ELSE Fail

NoBlock == [some |-> FALSE, items |-> <<>>]
SomeBlock(items) == [some |-> TRUE, items |-> items]

\* An Item of the AST: kind is the Item variant; variant the variant of
\* Call or DeclarationName; tokens the value, prelude or arguments slice
\* (for a mixin call, selector holds the selector slice); block the
\* Option<ListOfItems>; from and to the offsets of the token-trees the item
\* was parsed from, span its span.
MkItem(kind, variant, name, selector, tokens, important, block) ==
    [kind |-> kind, variant |-> variant, name |-> name, selector |-> selector,
     tokens |-> tokens, important |-> important, block |-> block,
     from |-> 0, to |-> 0, span |-> SpanOf(0, 0)]

\* .map(DeclarationName::Ident) and .map(DeclarationName::Variable)
DeclarationName(variant, r) == IF r.st = "ok" THEN Ok(r.pos, <<variant, r.val>>) ELSE r

\* declaration_name as it would be without the at_ident alternative.
declaration_name_ident_only(tts, i) == DeclarationName("Ident", util_ident(tts, i))

\* choice((ident().map(DeclarationName::Ident), at_ident().map(DeclarationName::Variable)))
declaration_name(tts, i) ==
    choice(<<DeclarationName("Ident", util_ident(tts, i)),
             DeclarationName("Variable", util_at_ident(tts, i))>>)

\* any().and_is(symbol(';').not()).repeated(): up to the next top-level ';'
\* or the end of the slice.
RECURSIVE ValueEnd(_, _)
ValueEnd(tts, i) ==
    IF i >= Len(tts) \/ is_symbol(TAt(tts, i), ";") THEN i ELSE ValueEnd(tts, i + 1)

Important == <<"i", "m", "p", "o", "r", "t", "a", "n", "t">>

\* split_last_chunk::<2>() matches [Symbol('!'), Ident("important")]
ends_with_important(value) ==
    /\ Len(value) >= 2
    /\ is_symbol(value[Len(value) - 1], "!")
    /\ IsTok(value[Len(value)], "Ident")
    /\ value[Len(value)].tt.tok.text = Important

\* The closure of declaration: the name, the raw value slice tts[start..stop]
\* and the offset after the declaration.
declaration_map(name, value, pos) ==
    LET on_trimmed(trimmed) ==
        Ok(pos,
           MkItem("Declaration", name[1], name[2], <<>>,
                  strip_trailing_junk(IF ends_with_important(trimmed)
                                      THEN SubSeq(trimmed, 1, Len(trimmed) - 2)
                                      ELSE trimmed),
                  ends_with_important(trimmed), NoBlock))
    IN  on_trimmed(strip_trailing_junk(value))

declaration(tts, i) ==
    LET on_name(name) ==
        IF name.st # "ok" THEN Fail
        ELSE LET on_colon(colon) ==
                 IF colon.st # "ok" THEN Fail
                 ELSE LET on_start(start) ==
                          LET on_stop(stop) ==
                              declaration_map(name.val, Slice(tts, start, stop),
                                              IF stop < Len(tts) THEN stop + 1 ELSE stop)
                          IN  on_stop(ValueEnd(tts, start))
                      IN  on_start(JunkEnd(tts, colon.pos))
             IN  on_colon(util_symbol(tts, JunkEnd(tts, name.pos), ":"))
    IN  on_name(declaration_name(tts, i))

\* call_end as it would be if nothing had to follow the call.
call_end_anything(tts, i) == Ok(i, <<>>)

\* choice((end(), symbol(';')))
call_end(tts, i) ==
    IF i >= Len(tts) THEN Ok(i, <<>>) ELSE util_symbol(tts, i, ";")

\* symbol('.').then(ident()), a Paren tree, call_end
mixin_call(tts, i) ==
    IF /\ util_symbol(tts, i, ".").st = "ok"
       /\ util_ident(tts, i + 1).st = "ok"
       /\ is_tree(TAt(tts, i + 2), "Paren")
    THEN LET on_e(e) ==
             IF e.st = "ok"
             THEN Ok(e.pos, MkItem("Call", "Mixin", <<>>, Slice(tts, i, i + 2),
                                   TAt(tts, i + 2).tt.items, FALSE, NoBlock))
             ELSE Fail
         IN  on_e(call_end(tts, i + 3))
    ELSE Fail

\* at_ident(), an empty Paren tree, call_end
variable_call(tts, i) ==
    LET on_name(name) ==
        IF /\ name.st = "ok"
           /\ is_tree(TAt(tts, name.pos), "Paren")
           /\ TAt(tts, name.pos).tt.items = <<>>
        THEN LET on_e(e) ==
                 IF e.st = "ok"
                 THEN Ok(e.pos, MkItem("Call", "Variable", name.val, <<>>, <<>>,
                                       FALSE, NoBlock))
                 ELSE Fail
             IN  on_e(call_end(tts, name.pos + 1))
        ELSE Fail
    IN  on_name(util_at_ident(tts, i))

\* ident(), a Paren tree, call_end
function_call(tts, i) ==
    LET on_name(name) ==
        IF name.st = "ok" /\ is_tree(TAt(tts, name.pos), "Paren")
        THEN LET on_e(e) ==
                 IF e.st = "ok"
                 THEN Ok(e.pos, MkItem("Call", "Function", name.val, <<>>,
                                       TAt(tts, name.pos).tt.items, FALSE, NoBlock))
                 ELSE Fail
             IN  on_e(call_end(tts, name.pos + 1))
        ELSE Fail
    IN  on_name(util_ident(tts, i))

\* choice((mixin_call, variable_call, function_call))
call(tts, i) == choice(<<mixin_call(tts, i), variable_call(tts, i), function_call(tts, i)>>)

\* The prelude as it would be if only ';' ended it, a Brace tree did not.
prelude_to_semicolon_only(tts, i) == ValueEnd(tts, i)

\* The prelude of an at-rule or a qualified rule: up to the next top-level
\* ';' or Brace tree, or the end of the slice.
RECURSIVE PreludeEnd(_, _)
PreludeEnd(tts, i) ==
    IF i >= Len(tts) \/ is_symbol(TAt(tts, i), ";") \/ is_tree(TAt(tts, i), "Brace")
    THEN i
    ELSE PreludeEnd(tts, i + 1)

RECURSIVE list_of_items(_, _), item(_, _), rule_block(_, _)

GenericAtRule(name, prelude, block) ==
    MkItem("AtRule", "Generic", name, <<>>, prelude, FALSE, block)

\* group((at_ident(), at_rule_prelude, at_rule_end)) with
\* at_rule_end = choice((end().to(None), symbol(';').to(None), rule_block.map(Some)))
at_rule(tts, i) ==
    LET on_name(name) ==
        IF name.st # "ok" THEN Fail
        ELSE LET on_stop(stop) ==
                 IF stop >= Len(tts)
                 THEN Ok(stop, GenericAtRule(name.val, Slice(tts, name.pos, stop), NoBlock))
                 ELSE IF is_symbol(TAt(tts, stop), ";")
                 THEN Ok(stop + 1,
                         GenericAtRule(name.val, Slice(tts, name.pos, stop), NoBlock))
                 ELSE LET on_block(block) ==
                          IF block.st = "ok"
                          THEN Ok(block.pos,
                                  GenericAtRule(name.val, Slice(tts, name.pos, stop),
                                                SomeBlock(block.val)))
                          ELSE Fail
                      IN  on_block(rule_block(tts, stop))
             IN  on_stop(PreludeEnd(tts, name.pos))
    IN  on_name(util_at_ident(tts, i))

\* group((qualified_rule_prelude, rule_block))
qualified_rule(tts, i) ==
    LET on_stop(stop) ==
        LET on_block(block) ==
            IF block.st = "ok"
            THEN Ok(block.pos, MkItem("QualifiedRule", "Generic", <<>>, <<>>,
                                      Slice(tts, i, stop), FALSE, SomeBlock(block.val)))
            ELSE Fail
        IN  on_block(rule_block(tts, stop))
    IN  on_stop(PreludeEnd(tts, i))

\* list_of_items.nested_in(select_ref!(TokenTree::Tree(Delim::Brace, tts) => ...)):
\* the token-tree is a Brace tree and list_of_items consumes all its children.
rule_block(tts, i) ==
    IF is_tree(TAt(tts, i), "Brace")
    THEN LET on_inner(inner) ==
             IF inner.pos = Len(TAt(tts, i).tt.items) THEN Ok(i + 1, inner.val) ELSE Fail
         IN  on_inner(list_of_items(TAt(tts, i).tt.items, 0))
    ELSE Fail

\* item as it would be if its span were the span of the whole slice.
item_spanning_slice(tts, i) ==
    LET on_r(r) ==
            IF r.st = "ok"
            THEN Ok(r.pos, [r.val EXCEPT !.from = i, !.to = r.pos,
                                         !.span = SpanOf(tts[1].span.start,
                                                         tts[Len(tts)].span.end)])
            ELSE Fail
    IN  on_r(choice(<<declaration(tts, i), call(tts, i), at_rule(tts, i),
                      qualified_rule(tts, i)>>))

\* choice((declaration, call, at_rule, qualified_rule))
\* .map_with(|item, e| (item, e.span())): the span runs from the first to
\* the last token-tree the item consumed.
item(tts, i) ==
    LET on_r(r) ==
            IF r.st = "ok"
            THEN Ok(r.pos, [r.val EXCEPT !.from = i, !.to = r.pos,
                                         !.span = SpanOf(tts[i + 1].span.start,
                                                         tts[r.pos].span.end)])
            ELSE Fail
    IN  on_r(choice(<<declaration(tts, i), call(tts, i), at_rule(tts, i),
                      qualified_rule(tts, i)>>))

\* item.separated_by(junk()).allow_leading().allow_trailing().collect()
list_of_items(tts, i) ==
    LET on_j(j) ==
        LET on_it(it) ==
            IF it.st = "ok"
            THEN LET on_rest(rest) ==
                     Ok(rest.pos, <<it.val>> \o rest.val)
                 IN  on_rest(list_of_items(tts, it.pos))
            ELSE Ok(j, <<>>)
        IN  on_it(item(tts, j))
    IN  on_j(JunkEnd(tts, i))

\* parser().parse(tts).into_result(): parse() accepts only if every
\* token-tree was consumed.
parser(tts) ==
    LET on_r(r) ==
        IF r.pos = Len(tts) THEN [st |-> "ok", val |-> r.val]
        ELSE [st |-> "err", val |-> <<>>]
    IN  on_r(list_of_items(tts, 0))

----------------------------------------------------------------------------
(* The state machine: a source text is lexed, then either one of its       *)
(* token-trees is lexed again on its own, or the token-trees are parsed.   *)

\* Every concatenation of at most n of the words W.
RECURSIVE Concats(_, _)
Concats(W, n) ==
    IF n = 0 THEN {<<>>}
    ELSE LET prev == Concats(W, n - 1)
         IN  prev \cup {p \o w : p \in prev, w \in W}

\* Every spanned token-tree of a lexer result, at any depth.
RECURSIVE AllTrees(_)
AllTrees(tts) ==
    UNION {{tts[k]} \cup AllTrees(tts[k].tt.items) : k \in 1..Len(tts)}

NoResult == [st |-> "none", val |-> <<>>]
NoPick == Spanned(TTToken(Tok("", <<>>, <<>>)), SpanOf(0, 0))
NoStream == [st |-> "none"]
NoTokenizer == [st |-> "none"]

InitWith(texts) ==
    /\ input \in texts
    /\ pc = "start"
    /\ lexed = NoResult
    /\ pick = NoPick
    /\ relexed = NoResult
    /\ parsed = NoResult
    /\ stream = NoStream
    /\ ideal = NoStream
    /\ tokenizer = NoTokenizer

\* lexer().parse(input)
Lex ==
    /\ pc = "start"
    /\ lexed' = lexer(input)
    /\ pc' = "lexed"
    /\ UNCHANGED <<input, pick, relexed, parsed, stream, ideal, tokenizer>>

\* lexer().parse(&input[span.start..span.end]) for one token-tree of the result
Relex ==
    /\ pc = "lexed"
    /\ lexed.st = "ok"
    /\ \E t \in AllTrees(lexed.val) :
          /\ pick' = t
          /\ relexed' = lexer(Slice(input, t.span.start, t.span.end))
    /\ pc' = "relexed"
    /\ UNCHANGED <<input, lexed, parsed, stream, ideal, tokenizer>>

NextLex == Lex \/ Relex

\* parser().parse(tts) on the token-trees of a successful lexer run
Parse ==
    /\ pc = "lexed"
    /\ lexed.st = "ok"
    /\ parsed' = parser(lexed.val)
    /\ pc' = "parsed"
    /\ UNCHANGED <<input, lexed, pick, relexed, stream, ideal, tokenizer>>

NextParse == Lex \/ Parse

\* Texts of delimiters and identifiers.
DelimTexts == Concats({<<"(">>, <<")">>, <<"[">>, <<"]">>, <<"{">>, <<"}">>, <<"a">>}, MaxLen)

SpecDelim == InitWith(DelimTexts) /\ [][NextLex]_vars

\* Texts of quotes, identifiers, whitespace and parentheses.
StringTexts == Concats({<<"\"">>, <<"'">>, <<"a">>, <<" ">>, <<"(">>, <<")">>}, MaxLen)

SpecString == InitWith(StringTexts) /\ [][NextLex]_vars

\* Texts that hold every kind of token.
TokenTexts ==
    Concats({<<"a">>, <<"-">>, <<"1">>, <<".">>, <<"\n">>, <<"\\">>, <<"/">>, <<"*">>,
             <<"#">>, <<"\"">>, <<"(">>, <<")">>}, MaxTokLen)

SpecTok == InitWith(TokenTexts) /\ [][NextLex]_vars

----------------------------------------------------------------------------
(* Claims about the lexer *)

OpenChars == {"(", "{", "["}
CloseChars == {")", "}", "]"}
CloseOf(c) == CASE c = "(" -> ")" [] c = "{" -> "}" [] c = "[" -> "]"

\* Bracket matching over a text of delimiters and plain characters, from
\* offset o with the stack st of open delimiters not yet closed.  A close
\* delimiter that does not match the innermost open one is skipped.
\* UnmatchedOpenFrom: some open delimiter meets a close of another kind or
\* is still open at the end.  StrayCloseFrom: some close delimiter stands at
\* the outer level, where no delimiter is open.
RECURSIVE UnmatchedOpenFrom(_, _, _)
UnmatchedOpenFrom(s, o, st) ==
    IF o >= Len(s) THEN st # <<>>
    ELSE IF At(s, o) \in OpenChars THEN UnmatchedOpenFrom(s, o + 1, <<At(s, o)>> \o st)
    ELSE IF At(s, o) \in CloseChars
    THEN IF st = <<>> THEN UnmatchedOpenFrom(s, o + 1, st)
         ELSE IF CloseOf(Head(st)) = At(s, o) THEN UnmatchedOpenFrom(s, o + 1, Tail(st))
         ELSE TRUE
    ELSE UnmatchedOpenFrom(s, o + 1, st)

RECURSIVE StrayCloseFrom(_, _, _)
StrayCloseFrom(s, o, st) ==
    IF o >= Len(s) THEN FALSE
    ELSE IF At(s, o) \in OpenChars THEN StrayCloseFrom(s, o + 1, <<At(s, o)>> \o st)
    ELSE IF At(s, o) \in CloseChars
    THEN IF st = <<>> THEN TRUE
         ELSE IF CloseOf(Head(st)) = At(s, o) THEN StrayCloseFrom(s, o + 1, Tail(st))
         ELSE StrayCloseFrom(s, o + 1, st)
    ELSE StrayCloseFrom(s, o + 1, st)

IsSymbolIn(t, chars) ==
    t.tt.type = "Token" /\ t.tt.tok.kind = "Symbol" /\ t.tt.tok.text[1] \in chars

\* C1: an input with an open delimiter whose close delimiter is missing or
\* of another kind is a lex error, and no token-trees are returned for it:
\* the open character never comes back as a Symbol token.
C1_UnmatchedOpenIsError ==
    (pc = "lexed" /\ UnmatchedOpenFrom(input, 0, <<>>))
        => /\ lexed.st = "err"
           /\ \A t \in AllTrees(lexed.val) : ~IsSymbolIn(t, OpenChars)

\* C2: an input with a close delimiter at the outer level, with no open
\* delimiter before it to match, is a lex error: the stray close character
\* never comes back as a Symbol token.
C2_StrayCloseIsError ==
    (pc = "lexed" /\ StrayCloseFrom(input, 0, <<>>))
        => /\ lexed.st = "err"
           /\ \A k \in 1..Len(lexed.val) : ~IsSymbolIn(lexed.val[k], CloseChars)

\* Some quote at or after offset o, outside every earlier string, opens a
\* string that no later quote of the same kind closes.
RECURSIVE UnterminatedStringFrom(_, _)
UnterminatedStringFrom(s, o) ==
    IF o >= Len(s) THEN FALSE
    ELSE IF At(s, o) \in {"\"", "'"}
    THEN IF QuoteEnd(s, o + 1, At(s, o)) >= Len(s) THEN TRUE
         ELSE UnterminatedStringFrom(s, QuoteEnd(s, o + 1, At(s, o)) + 1)
    ELSE UnterminatedStringFrom(s, o + 1)

\* C3: an input in which a quote opens a string that is not closed before
\* the end of the input is a lex error: the quote never comes back as a
\* Symbol token.
C3_UnterminatedStringIsError ==
    (pc = "lexed" /\ UnterminatedStringFrom(input, 0))
        => /\ lexed.st = "err"
           /\ \A t \in AllTrees(lexed.val) : ~IsSymbolIn(t, {"\"", "'"})

\* The spans of tts tile [from, to): adjacent, in order, nothing left out;
\* and so do the children of every Tree between its delimiters.
RECURSIVE Tiles(_, _, _)
Tiles(tts, from, to) ==
    IF tts = <<>> THEN from = to
    ELSE /\ tts[1].span.start = from
         /\ tts[1].span.end > from
         /\ tts[1].tt.type = "Tree"
               => Tiles(tts[1].tt.items, tts[1].span.start + 1, tts[1].span.end - 1)
         /\ Tiles(Tail(tts), tts[1].span.end, to)

\* C4: when the lexer succeeds, the spans of the top-level token-trees tile
\* the input from 0 to its length, and the children of every Tree tile the
\* text between its open and its close delimiter; whitespace and comments
\* are tokens of the tiling.
C4_SpansTile ==
    (pc # "start" /\ lexed.st = "ok") => Tiles(lexed.val, 0, Len(input))

IsJunkTT(t) == t.tt.type = "Token" /\ t.tt.tok.kind \in {"Whitespace", "Comment"}

\* A lexed text with a junk token among several top-level token-trees and
\* a Tree among them.
C4_Witness ==
    /\ pc = "lexed" /\ lexed.st = "ok" /\ Len(lexed.val) >= 2
    /\ \E k \in 1..Len(lexed.val) : IsJunkTT(lexed.val[k])
    /\ \E k \in 1..Len(lexed.val) : lexed.val[k].tt.type = "Tree"

\* C5: for every Tree of a successful result, the character at span.start
\* is the open character of its delimiter, the character at span.end - 1 is
\* the close character, and every child span lies strictly between them.
C5_TreeDelimiters ==
    (pc # "start" /\ lexed.st = "ok") =>
        \A t \in AllTrees(lexed.val) :
            t.tt.type = "Tree" =>
                /\ t.tt.delim = "Paren" =>
                      At(input, t.span.start) = "(" /\ At(input, t.span.end - 1) = ")"
                /\ t.tt.delim = "Brace" =>
                      At(input, t.span.start) = "{" /\ At(input, t.span.end - 1) = "}"
                /\ t.tt.delim = "Bracket" =>
                      At(input, t.span.start) = "[" /\ At(input, t.span.end - 1) = "]"
                /\ t.span.end - t.span.start >= 2
                /\ \A k \in 1..Len(t.tt.items) :
                      /\ t.tt.items[k].span.start > t.span.start
                      /\ t.tt.items[k].span.end <= t.span.end - 1

\* A lexed text with a Tree inside a Tree of another delimiter.
C5_Witness ==
    /\ pc = "lexed" /\ lexed.st = "ok"
    /\ \E t \in AllTrees(lexed.val) :
          /\ t.tt.type = "Tree"
          /\ \E k \in 1..Len(t.tt.items) :
                t.tt.items[k].tt.type = "Tree" /\ t.tt.items[k].tt.delim # t.tt.delim

\* The spanned token-tree t with every span moved by d.
RECURSIVE Shift(_, _)
Shift(t, d) ==
    Spanned([t.tt EXCEPT !.items = [k \in 1..Len(t.tt.items) |-> Shift(t.tt.items[k], d)]],
            SpanOf(t.span.start + d, t.span.end + d))

\* C6: lexing the text of any token-tree of a result on its own gives
\* exactly that token-tree, with its spans moved to start at 0.
C6_RelexIsSame ==
    pc = "relexed" =>
        /\ relexed.st = "ok"
        /\ relexed.val = <<Shift(pick, 0 - pick.span.start)>>

\* C6 apart from the runs that never return: whenever lexing a token-tree's
\* text on its own returns, it returns that token-tree.
RelexIsSameUnlessAbort ==
    (pc = "relexed" /\ relexed.st # "abort") =>
        /\ relexed.st = "ok"
        /\ relexed.val = <<Shift(pick, 0 - pick.span.start)>>

----------------------------------------------------------------------------
(* Source texts for the parser, built from whole words *)

ImportantWords ==
    {<<"a", ":">>, <<"a">>, <<"!">>, <<" ">>, <<";">>, <<"/", "*", "*", "/">>, Important}

ImportantTexts == Concats(ImportantWords, MaxWords)

SpecImportant == InitWith(ImportantTexts) /\ [][NextParse]_vars

RuleWords == {<<"a">>, <<":">>, <<" ">>, <<";">>, <<"{">>, <<"}">>, <<"{", "}">>}

RuleTexts == Concats(RuleWords, MaxWords)

SpecRule == InitWith(RuleTexts) /\ [][NextParse]_vars

CallWords ==
    {<<"a">>, <<".", "a">>, <<"@", "a">>, <<"(", ")">>, <<"(", "a", ")">>,
     <<";">>, <<"{">>, <<"}">>, <<" ">>}

CallTexts == Concats(CallWords, MaxWords)

SpecCall == InitWith(CallTexts) /\ [][NextParse]_vars

AtWords ==
    {<<"@", "a">>, <<"a">>, <<":">>, <<"(", ")">>, <<"(", "a", ")">>,
     <<";">>, <<"{">>, <<"}">>, <<" ">>}

AtTexts == Concats(AtWords, MaxWords)

SpecAt == InitWith(AtTexts) /\ [][NextParse]_vars

----------------------------------------------------------------------------
(* Claims about the structural parser *)

\* Every item of a parse result at any depth, each with the slice of
\* token-trees it was parsed from: the children of the Brace tree for the
\* items of a block.
RECURSIVE AllItems(_, _)
AllItems(items, tts) ==
    UNION {{[it |-> items[k], tts |-> tts]}
              \cup (IF items[k].block.some
                    THEN AllItems(items[k].block.items, tts[items[k].to].tt.items)
                    ELSE {})
           : k \in 1..Len(items)}

ParsedItems == IF pc = "parsed" /\ parsed.st = "ok" THEN AllItems(parsed.val, lexed.val) ELSE {}

NonJunk(tts) == SelectSeq(tts, LAMBDA x : ~is_junk(x))

\* The non-junk token-trees of the raw value of the declaration p: what
\* stands after the name and the colon, before the terminating ';' or end.
RawValue(p) ==
    LET all == NonJunk(Slice(p.tts, p.it.from, p.it.to))
        body == IF is_symbol(all[Len(all)], ";") THEN SubSeq(all, 1, Len(all) - 1) ELSE all
        head == IF p.it.variant = "Variable" THEN 3 ELSE 2
    IN  SubSeq(body, head + 1, Len(body))

EndsBangImportant(v) ==
    /\ Len(v) >= 2
    /\ is_symbol(v[Len(v) - 1], "!")
    /\ IsTok(v[Len(v)], "Ident") /\ v[Len(v)].tt.tok.text = Important

\* C7: a Declaration is important exactly when the last two non-junk tokens
\* of its raw value are '!' and the identifier important, with or without
\* whitespace or comments between the two; when it is important neither of
\* the two tokens stays in the stored value, and when it is not the stored
\* value keeps every non-junk token of the raw value.
C7_ImportantIffTrailingTokens ==
    \A p \in ParsedItems :
        p.it.kind = "Declaration" =>
            /\ p.it.important <=> EndsBangImportant(RawValue(p))
            /\ p.it.important =>
                  NonJunk(p.it.tokens) = SubSeq(RawValue(p), 1, Len(RawValue(p)) - 2)
            /\ ~p.it.important => NonJunk(p.it.tokens) = RawValue(p)

\* The first non-junk token-tree is an identifier directly followed by a
\* colon, and a Brace tree that parses as a block comes before any ';'.
IdentColonThenBlock(tts) ==
    LET i == JunkEnd(tts, 0)
    IN  /\ IsTok(TAt(tts, i), "Ident")
        /\ is_symbol(TAt(tts, i + 1), ":")
        /\ rule_block(tts, PreludeEnd(tts, i)).st = "ok"

\* C8: an item that starts with an identifier and a colon, and whose tokens
\* reach a Brace tree before any ';', is a QualifiedRule with the tokens
\* before the Brace tree as prelude and the parsed Brace tree as block; no
\* Declaration holds a Brace tree of that shape in its value.
C8_IdentColonBlockIsQualifiedRule ==
    (pc = "parsed" /\ IdentColonThenBlock(lexed.val)) =>
        LET i == JunkEnd(lexed.val, 0)
            b == PreludeEnd(lexed.val, i)
        IN  /\ parsed.st = "ok"
            /\ parsed.val # <<>>
            /\ parsed.val[1].kind = "QualifiedRule"
            /\ parsed.val[1].tokens = Slice(lexed.val, i, b)
            /\ parsed.val[1].block = SomeBlock(rule_block(lexed.val, b).val)

\* The call p ends with its Paren tree directly followed by ';'.
CallEndsWithSemicolon(p) ==
    /\ p.it.to - p.it.from >= 2
    /\ is_tree(p.tts[p.it.to - 1], "Paren")
    /\ is_symbol(p.tts[p.it.to], ";")

\* The Paren tree of the call p is the last token-tree of the input or of
\* the enclosing block.
CallEndsTheSlice(p) == is_tree(p.tts[p.it.to], "Paren") /\ p.it.to = Len(p.tts)

StartsWithAtIdent(p) ==
    is_symbol(TAt(p.tts, p.it.from), "@") /\ IsTok(TAt(p.tts, p.it.from + 1), "Ident")

\* After the '@' ident of p: optional junk, then ':'.
ColonFollows(p) == is_symbol(TAt(p.tts, JunkEnd(p.tts, p.it.from + 2)), ":")

\* After the '@' ident of p: an empty Paren tree, then ';' or the end.
EmptyCallFollows(p) ==
    /\ is_tree(TAt(p.tts, p.it.from + 2), "Paren")
    /\ TAt(p.tts, p.it.from + 2).tt.items = <<>>
    /\ p.it.from + 3 >= Len(p.tts) \/ is_symbol(TAt(p.tts, p.it.from + 3), ";")

AtRuleEnd(p) == TAt(p.tts, p.it.from + 2 + Len(p.it.tokens))

\* C11: the prelude of an AtRule is the longest run of sibling token-trees
\* after the name with no top-level ';' and no top-level Brace tree; block
\* is Some exactly when a Brace tree ended the at-rule (None when ';' or the
\* end of the slice did), and its items are the parse of the children of
\* that Brace tree.
C11_AtRulePreludeAndBlock ==
    \A p \in ParsedItems :
        p.it.kind = "AtRule" =>
            /\ p.it.tokens =
                  Slice(p.tts, p.it.from + 2, p.it.from + 2 + Len(p.it.tokens))
            /\ \A k \in 1..Len(p.it.tokens) :
                  ~is_symbol(p.it.tokens[k], ";") /\ ~is_tree(p.it.tokens[k], "Brace")
            /\ \/ is_symbol(AtRuleEnd(p), ";")
               \/ is_tree(AtRuleEnd(p), "Brace")
               \/ p.it.from + 2 + Len(p.it.tokens) = Len(p.tts)
            /\ p.it.block.some <=> is_tree(AtRuleEnd(p), "Brace")
            /\ p.it.block.some =>
                  /\ p.it.block.items = list_of_items(AtRuleEnd(p).tt.items, 0).val
                  /\ list_of_items(AtRuleEnd(p).tt.items, 0).pos = Len(AtRuleEnd(p).tt.items)

\* An at-rule with a prelude and a block that holds an item, and an at-rule
\* without a block.
C11_Witness ==
    /\ \E p \in ParsedItems :
          /\ p.it.kind = "AtRule" /\ p.it.block.some
          /\ p.it.block.items # <<>>
    /\ \E p \in ParsedItems : p.it.kind = "AtRule" /\ ~p.it.block.some

----------------------------------------------------------------------------
(* The text parsers of src/src/parser/{expression,string,mixin,selector}.rs.
   They read the source text itself, not token-trees.  A result is Ok(pos, val),
   Fail (nom's Err::Error, which alt and the repetitions recover from) or Abort
   (nom's Err::Failure, raised by cut, which nothing recovers from). *)

\* tag(t): the text t at offset o.
tag(t, s, o) ==
    IF o + Len(t) <= Len(s) /\ Slice(s, o, o + Len(t)) = t THEN Ok(o + Len(t), t) ELSE Fail

\* multispace1: a non-empty run of spaces, tabs and line ends.
junk_whitespace(s, o) ==
    LET on_e(e) == IF e > o THEN Ok(e, <<>>) ELSE Fail
    IN  on_e(WhitespaceEnd(s, o))

\* tag("//") then take_while(|c| c != '\n')
junk_line_comment(s, o) ==
    IF At(s, o) = "/" /\ At(s, o + 1) = "/" THEN Ok(LineEnd(s, o + 2), <<>>) ELSE Fail

\* tag("/*"), cut(take_until("*/")), tag("*/"): an unterminated comment is a Failure.
junk_block_comment(s, o) ==
    IF At(s, o) = "/" /\ At(s, o + 1) = "*"
    THEN LET on_b(b) == IF At(s, b) = EOF THEN Abort ELSE Ok(b + 2, <<>>)
         IN  on_b(BlockBodyEnd(s, o + 2))
    ELSE Fail

junk(s, o) ==
    choice(<<junk_whitespace(s, o), junk_line_comment(s, o), junk_block_comment(s, o)>>)

\* many0(junk)
RECURSIVE junk0(_, _)
junk0(s, o) ==
    LET on_j(j) ==
        IF j.st = "abort" THEN Abort
        ELSE IF j.st = "fail" THEN Ok(o, <<>>)
        ELSE junk0(s, j.pos)
    IN  on_j(junk(s, o))

\* crate::lexer::token(f): f, then the junk after it is skipped.
\* r is the result of f.
token_junk(s, r) ==
    IF r.st # "ok" THEN r
    ELSE LET on_j(j) == IF j.st = "ok" THEN Ok(j.pos, r.val) ELSE j
         IN  on_j(junk0(s, r.pos))

\* crate::lexer::symbol(t) is token(tag(t)).
symbol(t, s, o) == token_junk(s, tag(t, s, o))

\* crate::lexer::ident: an identifier, the junk after it is left.
lexer_ident(s, o) ==
    IF would_start_identifier(s, o)
    THEN LET on_e(e) == Ok(e, Slice(s, o, e))
         IN  on_e(NameEnd(s, o))
    ELSE Fail

\* crate::lexer::name: a non-empty run of name characters.
lexer_name(s, o) ==
    LET on_e(e) == IF e > o THEN Ok(e, Slice(s, o, e)) ELSE Fail
    IN  on_e(NameEnd(s, o))

\* preceded(tag(t), ident)
prefixed_ident(t, s, o) ==
    LET on_t(t_r) == IF t_r.st = "ok" THEN lexer_ident(s, t_r.pos) ELSE t_r
    IN  on_t(tag(t, s, o))

\* crate::lexer::at_keyword is token(preceded(tag("@"), ident)).
at_keyword(s, o) == token_junk(s, prefixed_ident(<<"@">>, s, o))

\* The end of sign? (digits ('.' digits)? | '.' digits) ([eE] sign? digits)?
\* that starts at o, or o when no number starts there.
MantissaEnd(s, o) ==
    LET on_i(i) ==
        IF i > o
        THEN IF At(s, i) = "." /\ is_digit(At(s, i + 1)) THEN DigitsEnd(s, i + 1) ELSE i
        ELSE IF At(s, o) = "." /\ is_digit(At(s, o + 1)) THEN DigitsEnd(s, o + 1) ELSE o
    IN  on_i(DigitsEnd(s, o))

ExponentEnd(s, m) ==
    LET on_k(k) == IF is_digit(At(s, k)) THEN DigitsEnd(s, k) ELSE m
    IN  IF At(s, m) \in {"e", "E"}
        THEN on_k(IF At(s, m + 1) \in {"+", "-"} THEN m + 2 ELSE m + 1)
        ELSE m

\* crate::lexer::number: the literal's text stands for its f32 value.
lexer_number(s, o) ==
    LET on_e(e) == Ok(e, Slice(s, o, e))
        on_d(d) ==
            LET on_m(m) == IF m > d THEN on_e(ExponentEnd(s, m)) ELSE Fail
            IN  on_m(MantissaEnd(s, d))
    IN  on_d(IF At(s, o) \in {"+", "-"} THEN o + 1 ELSE o)

\* The unit of a numeric: "%" or an identifier right after the number, or none.
NoUnit == <<>>
numeric_unit(s, o) ==
    choice(<<tag(<<"%">>, s, o), lexer_ident(s, o), Ok(o, NoUnit)>>)

\* crate::lexer::numeric: a number and its optional unit.
numeric(s, o) ==
    LET on_n(n) ==
        IF n.st # "ok" THEN n
        ELSE LET on_u(u) == Ok(u.pos, [value |-> n.val, unit |-> u.val])
             IN  on_u(numeric_unit(s, n.pos))
    IN  on_n(lexer_number(s, o))

----------------------------------------------------------------------------
(* src/src/parser/string.rs *)

QuotedString(text) == [e |-> "QuotedString", text |-> text]

InterpolatedString(strings, values) ==
    [e |-> "InterpolatedString", strings |-> strings, values |-> values]

InterpolatedValue(kind, name) == [kind |-> kind, name |-> name]

\* peek(alt((tag("@{"), tag("${"), recognize(char(quote)))))
string_part_ends(quote, s, o) ==
    \/ At(s, o) = quote
    \/ At(s, o) = "@" /\ At(s, o + 1) = "{"
    \/ At(s, o) = "$" /\ At(s, o + 1) = "{"

\* many_till(anychar, ...): the offset of the first terminator, or -1 when the
\* text ends before one.
RECURSIVE StringPartEnd(_, _, _)
StringPartEnd(quote, s, o) ==
    IF string_part_ends(quote, s, o) THEN o
    ELSE IF At(s, o) = EOF THEN -1
    ELSE StringPartEnd(quote, s, o + 1)

string_part(quote, s, o) ==
    LET on_e(e) == IF e < 0 THEN Fail ELSE Ok(e, Slice(s, o, e))
    IN  on_e(StringPartEnd(quote, s, o))

\* delimited(tag(open), map(ident, ...), tag("}"))
interpolated_kind(kind, opening, s, o) ==
    LET on_n(n) ==
        IF n.st # "ok" THEN n
        ELSE IF At(s, n.pos) = "}" THEN Ok(n.pos + 1, InterpolatedValue(kind, n.val))
        ELSE Fail
    IN  on_n(prefixed_ident(opening, s, o))

interpolated_part(s, o) ==
    choice(<<interpolated_kind("Variable", <<"@", "{">>, s, o),
             interpolated_kind("Property", <<"$", "{">>, s, o)>>)

\* pair(interpolated_part, string_part(quote))
interpolated_pair(quote, s, o) ==
    LET on_v(v) ==
        IF v.st # "ok" THEN v
        ELSE LET on_p(p) ==
                 IF p.st # "ok" THEN p ELSE Ok(p.pos, [value |-> v.val, string |-> p.val])
             IN  on_p(string_part(quote, s, v.pos))
    IN  on_v(interpolated_part(s, o))

\* acc.0.push(item.1); acc.1.push(item.0)
interpolated_push(acc, pushed) == <<Append(acc[1], pushed.string), Append(acc[2], pushed.value)>>

\* The fold of fold_many1 after its first item: acc is (strings, values).
RECURSIVE interpolated_fold(_, _, _, _)
interpolated_fold(quote, s, o, acc) ==
    LET on_i(i) ==
        IF i.st = "abort" THEN Abort
        ELSE IF i.st = "fail" THEN Ok(o, acc)
        ELSE interpolated_fold(quote, s, i.pos, interpolated_push(acc, i.val))
    IN  on_i(interpolated_pair(quote, s, o))

interpolated_init_without_first(first_part) == <<(<<>>), (<<>>)>>

\* || (vec![first_part.clone()], vec![]): the accumulator fold_many1 starts from.
interpolated_init(first_part) == <<(<<first_part>>), (<<>>)>>

interpolated_string_tail(quote, first_part, s, o) ==
    LET on_f(f) ==
            IF f.st # "ok" THEN f
            ELSE IF At(s, f.pos) = quote
                 THEN Ok(f.pos + 1, InterpolatedString(f.val[1], f.val[2]))
                 ELSE Fail
        on_i(i) ==
            IF i.st # "ok" THEN i
            ELSE on_f(interpolated_fold(quote, s, i.pos,
                     interpolated_push(interpolated_init(first_part), i.val)))
    IN  on_i(interpolated_pair(quote, s, o))

\* string(quote)
string_expr(quote, s, o) ==
    LET on_q(q) ==
        IF At(s, q) # quote THEN Fail
        ELSE LET on_p(p) ==
                 IF p.st # "ok" THEN p
                 ELSE IF At(s, p.pos) = quote THEN Ok(p.pos + 1, QuotedString(p.val))
                 ELSE interpolated_string_tail(quote, p.val, s, p.pos)
             IN  on_p(string_part(quote, s, q + 1))
    IN  on_q(IF At(s, o) = "~" THEN o + 1 ELSE o)

----------------------------------------------------------------------------
(* src/src/parser/expression.rs *)

BinaryOperation(op, left, right) ==
    [e |-> "BinaryOperation", op |-> op, left |-> left, right |-> right]

ExprNamed(kind, name) == [e |-> kind, name |-> name]

Numeric(value, unit) == [e |-> "Numeric", value |-> value, unit |-> unit]

VariableLookup(name, lookups) == [e |-> "VariableLookup", name |-> name, lookups |-> lookups]

ExprList(kind, values) == [e |-> kind, values |-> values]

FunctionCall(name, args) == [e |-> "FunctionCall", name |-> name, args |-> args]

DetachedRuleset(block) == [e |-> "DetachedRuleset", block |-> block]

Lookup(kind, name) == [kind |-> kind, name |-> name]

\* map / value: the value of a successful result is replaced.
mapped(r, v) == IF r.st = "ok" THEN Ok(r.pos, v) ELSE r

\* The operator alternatives of each binary_operation layer, in the order of alt.
logical_operator(s, o) ==
    choice(<<mapped(symbol(<<"a", "n", "d">>, s, o), "And"),
             mapped(symbol(<<"o", "r">>, s, o), "Or")>>)

comparison_operator(s, o) ==
    choice(<<mapped(symbol(<<"=">>, s, o), "Equality"),
             mapped(symbol(<<"<">>, s, o), "LessThan"),
             mapped(symbol(<<"<", "=">>, s, o), "LessThanOrEqualTo"),
             mapped(symbol(<<">">>, s, o), "GreaterThan"),
             mapped(symbol(<<">", "=">>, s, o), "GreaterThanOrEqualTo")>>)

sum_operator(s, o) ==
    choice(<<mapped(symbol(<<"+">>, s, o), "Add"),
             mapped(symbol(<<"-">>, s, o), "Subtract")>>)

product_operator(s, o) ==
    choice(<<mapped(symbol(<<"*">>, s, o), "Multiply"),
             mapped(symbol(<<"/">>, s, o), "Divide")>>)

\* The operator parser handed to binary_operation by the layer.
layer_operator(layer, s, o) ==
    IF layer = "logical" THEN logical_operator(s, o)
    ELSE IF layer = "comparison" THEN comparison_operator(s, o)
    ELSE IF layer = "sum" THEN sum_operator(s, o)
    ELSE product_operator(s, o)

\* crate::parser::block_of_items: a block starts with "{"; its text up to the
\* first "}" stands for its items.
RECURSIVE BlockEnd(_, _)
BlockEnd(s, o) == IF At(s, o) = EOF \/ At(s, o) = "}" THEN o ELSE BlockEnd(s, o + 1)

block_of_items(s, o) ==
    LET on_b(b) ==
        IF b.st # "ok" THEN b
        ELSE LET on_e(e) ==
                 IF At(s, e) = EOF THEN Fail
                 ELSE token_junk(s, Ok(e + 1, Slice(s, b.pos, e)))
             IN  on_e(BlockEnd(s, b.pos))
    IN  on_b(symbol(<<"{">>, s, o))

detached_ruleset(s, o) ==
    LET on_b(b) == IF b.st = "ok" THEN Ok(b.pos, DetachedRuleset(b.val)) ELSE b
    IN  on_b(block_of_items(s, o))

\* Option<T>
None == [some |-> FALSE]
Some(v) == [some |-> TRUE, v |-> v]

SimpleSelector(kind, name) == [sel |-> kind, name |-> name]

\* selector.rs: preceded(tag("#"), name)
id_selector(s, o) ==
    LET on_t(t) ==
        IF t.st # "ok" THEN t
        ELSE LET on_n(n) == IF n.st = "ok" THEN Ok(n.pos, SimpleSelector("Id", n.val)) ELSE n
             IN  on_n(lexer_name(s, t.pos))
    IN  on_t(tag(<<"#">>, s, o))

\* selector.rs: preceded(tag("."), ident)
class_selector(s, o) ==
    LET on_n(n) == IF n.st = "ok" THEN Ok(n.pos, SimpleSelector("Class", n.val)) ELSE n
    IN  on_n(prefixed_ident(<<".">>, s, o))

mixin_simple_selector(s, o) == choice(<<id_selector(s, o), class_selector(s, o)>>)

\* value((), parse(opt(symbol(">"))))
mixin_combinator(s, o) ==
    LET on_j(j) ==
        IF j.st # "ok" THEN j
        ELSE choice(<<symbol(<<">">>, s, j.pos), Ok(j.pos, <<>>)>>)
    IN  on_j(junk0(s, o))

\* preceded(mixin_combinator, mixin_simple_selector)
mixin_selector_next(s, o) ==
    LET on_c(c) == IF c.st = "ok" THEN mixin_simple_selector(s, c.pos) ELSE c
    IN  on_c(mixin_combinator(s, o))

RECURSIVE mixin_selector_fold(_, _, _)
mixin_selector_fold(s, o, acc) ==
    LET on_n(n) ==
        IF n.st = "abort" THEN Abort
        ELSE IF n.st = "fail" THEN Ok(o, acc)
        ELSE mixin_selector_fold(s, n.pos, Append(acc, n.val))
    IN  on_n(mixin_selector_next(s, o))

mixin_selector(s, o) ==
    LET on_f(f) ==
        IF f.st # "ok" THEN f
        ELSE token_junk(s, mixin_selector_fold(s, f.pos, <<f.val>>))
    IN  on_f(token_junk(s, mixin_simple_selector(s, o)))

\* enum MixinArgument
ArgVariable(name, value) == [arg |-> "Variable", name |-> name, value |-> value]
ArgLiteral(value) == [arg |-> "Literal", value |-> value]
ArgVariadic(name) == [arg |-> "Variadic", name |-> name]

\* Result<MixinArgument, &'static str>
ArgOk(a) == [ok |-> TRUE, arg |-> a]
ArgErr == [ok |-> FALSE]

\* The values pushed for the arguments after the first one.
RECURSIVE RestValues(_)
RestValues(args) ==
    IF args = <<>> THEN <<>> ELSE <<args[1].value>> \o RestValues(Tail(args))

\* semicolon_argument as it would be if the CommaList were built from no
\* values too.
semicolon_argument_always_list(name, values) ==
    IF name.some THEN ArgOk(ArgVariable(name.v, Some(ExprList("CommaList", values))))
    ELSE IF values # <<>> THEN ArgOk(ArgLiteral(ExprList("CommaList", values)))
    ELSE ArgErr

\* The argument built from the name and the collected values.
semicolon_argument(name, values) ==
    IF name.some
    THEN ArgOk(ArgVariable(name.v, IF values = <<>> THEN None ELSE Some(ExprList("CommaList", values))))
    ELSE IF values # <<>> THEN ArgOk(ArgLiteral(ExprList("CommaList", values)))
    ELSE ArgErr

to_semicolon_separated_first_only(args) ==
    IF args = <<>> THEN ArgErr
    ELSE IF args[1].arg = "Variable" THEN ArgOk(args[1])
    ELSE IF args[1].arg = "Literal" THEN ArgOk(ArgLiteral(ExprList("CommaList", <<args[1].value>>)))
    ELSE ArgErr

to_semicolon_separated(args) ==
    IF args = <<>> THEN ArgErr
    ELSE IF args[1].arg = "Variadic" THEN ArgErr
    ELSE IF \E k \in 2..Len(args) : args[k].arg # "Literal" THEN ArgErr
    ELSE semicolon_argument(
             IF args[1].arg = "Variable" THEN Some(args[1].name) ELSE None,
             (IF args[1].arg = "Literal" THEN <<args[1].value>>
              ELSE IF args[1].value.some THEN <<args[1].value.v>> ELSE <<>>)
             \o RestValues(Tail(args)))

\* impl TryFrom<MixinArgument> for MixinCallArgument
MixinCallArgument(name, value) == [name |-> name, value |-> value]

call_argument_try_from_unnamed(a) ==
    IF a.arg = "Variable"
    THEN IF a.value.some THEN ArgOk(MixinCallArgument(None, a.value.v))
         ELSE ArgOk(MixinCallArgument(None, ExprNamed("Variable", a.name)))
    ELSE IF a.arg = "Literal" THEN ArgOk(MixinCallArgument(None, a.value))
    ELSE ArgErr

call_argument_try_from(a) ==
    IF a.arg = "Variable"
    THEN IF a.value.some THEN ArgOk(MixinCallArgument(Some(a.name), a.value.v))
         ELSE ArgOk(MixinCallArgument(None, ExprNamed("Variable", a.name)))
    ELSE IF a.arg = "Literal" THEN ArgOk(MixinCallArgument(None, a.value))
    ELSE ArgErr

\* args.into_iter().map(TryInto::try_into).collect(): the first Err ends it.
call_arguments_collect(args) ==
    IF \E k \in 1..Len(args) : ~call_argument_try_from(args[k]).ok
    THEN ArgErr
    ELSE [ok |-> TRUE, args |-> [k \in 1..Len(args) |-> call_argument_try_from(args[k]).arg]]

\* cut(f): an Error of f becomes a Failure.
cut(r) == IF r.st = "fail" THEN Abort ELSE r

RECURSIVE applied(_, _, _)
RECURSIVE binary_fold(_, _, _, _)
RECURSIVE space_fold(_, _, _)
RECURSIVE separated_fold(_, _, _, _, _)
RECURSIVE mixin_arguments_loop(_, _, _, _)

\* The operand parser handed to binary_operation by the layer.
layer_operand(layer) ==
    IF layer = "logical" THEN "comparison_operation"
    ELSE IF layer = "comparison" THEN "sum_operation"
    ELSE IF layer = "sum" THEN "product_operation"
    ELSE "simple_expression"


\* binary_operation(operand, operator): the first operand, then
\* fold_many0(pair(operator, operand), ...) building a left-leaning tree.
binary_operation(layer, s, o) ==
    LET on_first(first) ==
        IF first.st # "ok" THEN first ELSE binary_fold(layer, s, first.pos, first.val)
    IN  on_first(applied(layer_operand(layer), s, o))

binary_fold(layer, s, o, left) ==
    LET on_op(op) ==
        IF op.st = "abort" THEN Abort
        ELSE IF op.st = "fail" THEN Ok(o, left)
        ELSE LET on_right(right) ==
                 IF right.st = "abort" THEN Abort
                 ELSE IF right.st = "fail" THEN Ok(o, left)
                 ELSE binary_fold(layer, s, right.pos, BinaryOperation(op.val, left, right.val))
             IN  on_right(applied(layer_operand(layer), s, op.pos))
    IN  on_op(layer_operator(layer, s, o))

logical_operation(s, o) == binary_operation("logical", s, o)

comparison_operation(s, o) == binary_operation("comparison", s, o)

sum_operation(s, o) == binary_operation("sum", s, o)

product_operation(s, o) == binary_operation("product", s, o)

boolean_expression(s, o) == logical_operation(s, o)

\* many1(sum_operation) after its first elem.
space_fold(s, o, acc) ==
    LET on_v(v) ==
        IF v.st = "abort" THEN Abort
        ELSE IF v.st = "fail" THEN Ok(o, acc)
        ELSE IF v.pos = o THEN Fail
        ELSE space_fold(s, v.pos, Append(acc, v.val))
    IN  on_v(applied("sum_operation", s, o))

\* space_list(sum_operation)
space_list(s, o) ==
    LET on_l(l) == IF l.st = "ok" THEN Ok(l.pos, ExprList("SpaceList", l.val)) ELSE l
        on_first(first) ==
            IF first.st # "ok" THEN first
            ELSE on_l(space_fold(s, first.pos, <<first.val>>))
    IN  on_first(applied("sum_operation", s, o))

comma_separated_arg_value(s, o) == space_list(s, o)

\* separated_list1(symbol(sep), item) after its first elem: a separator that
\* no elem follows is not consumed.
separated_fold(sep, elem, s, o, acc) ==
    LET on_sep(sp) ==
        IF sp.st = "abort" THEN Abort
        ELSE IF sp.st = "fail" THEN Ok(o, acc)
        ELSE LET on_v(v) ==
                 IF v.st = "abort" THEN Abort
                 ELSE IF v.st = "fail" THEN Ok(o, acc)
                 ELSE separated_fold(sep, elem, s, v.pos, Append(acc, v.val))
             IN  on_v(applied(elem, s, sp.pos))
    IN  on_sep(symbol(sep, s, o))

separated_list1(sep, elem, s, o) ==
    LET on_first(first) ==
        IF first.st # "ok" THEN first
        ELSE separated_fold(sep, elem, s, first.pos, <<first.val>>)
    IN  on_first(applied(elem, s, o))

\* comma_list(f)
comma_list(elem, s, o) ==
    LET on_l(l) == IF l.st = "ok" THEN Ok(l.pos, ExprList("CommaList", l.val)) ELSE l
    IN  on_l(separated_list1(<<",">>, elem, s, o))

\* semicolon_list(f)
semicolon_list(elem, s, o) ==
    LET on_l(l) == IF l.st = "ok" THEN Ok(l.pos, ExprList("SemicolonList", l.val)) ELSE l
    IN  on_l(separated_list1(<<";">>, elem, s, o))

semicolon_separated_arg_value(s, o) == comma_list("space_list", s, o)

function_args(s, o) == semicolon_list("comma_list_of_arg", s, o)

\* terminated(ident, symbol("(")) then cut(terminated(function_args, symbol(")")))
function_call_expr(s, o) ==
    LET on_args(name, args) ==
            IF args.st # "ok" THEN cut(args)
            ELSE cut(mapped(symbol(<<")">>, s, args.pos), FunctionCall(name, args.val)))
        on_open(name, op) ==
            IF op.st # "ok" THEN op ELSE on_args(name, applied("function_args", s, op.pos))
        on_name(n) ==
            IF n.st # "ok" THEN n ELSE on_open(n.val, symbol(<<"(">>, s, n.pos))
    IN  on_name(lexer_ident(s, o))

\* map(..., Lookup::X)
lookup_of(kind, r) == IF r.st = "ok" THEN Ok(r.pos, Lookup(kind, r.val)) ELSE r

\* The alternatives of lookup's inner parser; symbol("") matches everywhere.
lookup_inner(s, o) ==
    choice(<<
        lookup_of("VariableProperty", token_junk(s, prefixed_ident(<<"$", "@">>, s, o))),
        lookup_of("VariableVariable", token_junk(s, prefixed_ident(<<"@", "@">>, s, o))),
        lookup_of("Property", token_junk(s, prefixed_ident(<<"$">>, s, o))),
        lookup_of("Variable", token_junk(s, prefixed_ident(<<"@">>, s, o))),
        lookup_of("Ident", token_junk(s, lexer_ident(s, o))),
        lookup_of("Last", symbol(<<>>, s, o))>>)

\* preceded(symbol("["), terminated(cut(inner), symbol("]")))
lookup(s, o) ==
    LET on_in(in) ==
            IF in.st # "ok" THEN in
            ELSE mapped(symbol(<<"]">>, s, in.pos), in.val)
        on_open(op) == IF op.st # "ok" THEN op ELSE on_in(cut(lookup_inner(s, op.pos)))
    IN  on_open(symbol(<<"[">>, s, o))

\* many1(lookup) after its first item.
RECURSIVE lookup_fold(_, _, _)
lookup_fold(s, o, acc) ==
    LET on_l(l) ==
        IF l.st = "abort" THEN Abort
        ELSE IF l.st = "fail" THEN Ok(o, acc)
        ELSE lookup_fold(s, l.pos, Append(acc, l.val))
    IN  on_l(lookup(s, o))

\* many1(lookup)
lookups(s, o) ==
    LET on_first(first) ==
        IF first.st # "ok" THEN first ELSE lookup_fold(s, first.pos, <<first.val>>)
    IN  on_first(lookup(s, o))

\* if let Ok(...) = many1(lookup)(input): any error of the lookups, a Failure
\* included, leaves the plain variable.
variable_or_lookup(s, o) ==
    LET on_l(name, l) ==
            IF l.st = "ok" THEN Ok(l.pos, VariableLookup(name.val, l.val))
            ELSE Ok(name.pos, ExprNamed("Variable", name.val))
        on_name(name) ==
            IF name.st # "ok" THEN name ELSE on_l(name, lookups(s, name.pos))
    IN  on_name(at_keyword(s, o))

\* map(token(preceded(tag("$"), ident)), Expression::Property)
property(s, o) ==
    LET on_n(n) == IF n.st = "ok" THEN Ok(n.pos, ExprNamed("Property", n.val)) ELSE n
    IN  on_n(token_junk(s, prefixed_ident(<<"$">>, s, o)))

\* map(token(numeric), |(value, unit)| Expression::Numeric(value, unit))
numeric_value(s, o) ==
    LET on_n(n) == IF n.st = "ok" THEN Ok(n.pos, Numeric(n.val.value, n.val.unit)) ELSE n
    IN  on_n(token_junk(s, numeric(s, o)))

\* map(token(ident), Expression::Ident)
ident_value(s, o) ==
    LET on_n(n) == IF n.st = "ok" THEN Ok(n.pos, ExprNamed("Ident", n.val)) ELSE n
    IN  on_n(token_junk(s, lexer_ident(s, o)))

\* A sub-expression wrapped in a node of its own.
sub_wrapped(s, o) ==
    LET on_in(in) ==
            IF in.st # "ok" THEN in
            ELSE mapped(symbol(<<")">>, s, in.pos), ExprList("Sub", <<in.val>>))
        on_open(op) == IF op.st # "ok" THEN op ELSE on_in(applied("logical_operation", s, op.pos))
    IN  on_open(symbol(<<"(">>, s, o))

\* sub(logical_operation): delimited(symbol("("), f, symbol(")"))
sub(s, o) ==
    LET on_in(in) ==
            IF in.st # "ok" THEN in
            ELSE mapped(symbol(<<")">>, s, in.pos), in.val)
        on_open(op) == IF op.st # "ok" THEN op ELSE on_in(applied("logical_operation", s, op.pos))
    IN  on_open(symbol(<<"(">>, s, o))

----------------------------------------------------------------------------
(* src/src/parser/mixin.rs *)

\* preceded(cond(name.is_some(), token(tag(":"))), cut(alt((detached_ruleset, value))))
mixin_argument_value(named, separator, s, o) ==
    LET on_colon(c) ==
        IF c.st # "ok" THEN c
        ELSE cut(choice(<<applied("detached_ruleset", s, c.pos),
                          IF separator = "Comma"
                          THEN applied("comma_separated_arg_value", s, c.pos)
                          ELSE applied("semicolon_separated_arg_value", s, c.pos)>>))
    IN  on_colon(IF named THEN symbol(<<":">>, s, o) ELSE Ok(o, <<>>))

\* match separator { ... }: the separator after a pushed argument, and the
\* turns of the loop after it.
mixin_arguments_separator(s, o, args, separator) ==
    IF separator = "Comma"
    THEN LET on_semi(sc) ==
                 IF sc.st # "ok" THEN Ok(o, args)
                 ELSE LET on_arg(a) ==
                          IF a.ok
                          THEN mixin_arguments_loop(s, sc.pos, <<a.arg>>, "Semicolon")
                          ELSE Fail
                      IN  on_arg(to_semicolon_separated(args))
             on_comma(c) ==
                 IF c.st = "ok"
                 THEN mixin_arguments_loop(s, c.pos, args, "Comma")
                 ELSE on_semi(symbol(<<";">>, s, o))
         IN  on_comma(symbol(<<",">>, s, o))
    ELSE LET on_semi(sc) ==
                 IF sc.st = "ok"
                 THEN mixin_arguments_loop(s, sc.pos, args, "Semicolon")
                 ELSE Ok(o, args)
         IN  on_semi(symbol(<<";">>, s, o))

\* match (name, value) { ... }: the argument is pushed, or the loop ends.
mixin_arguments_push(s, o, args, separator, name, value) ==
    IF name.some
    THEN mixin_arguments_separator(s, value.pos, Append(args, ArgVariable(name.v, value.v)), separator)
    ELSE IF value.v.some
    THEN mixin_arguments_separator(s, value.pos, Append(args, ArgLiteral(value.v.v)), separator)
    ELSE Ok(o, args)

\* value_result.ok(): the value, if any, and the offset after it.
mixin_argument_option(o, r) ==
    IF r.st = "ok" THEN [pos |-> r.pos, v |-> Some(r.val)] ELSE [pos |-> o, v |-> None]

\* The turn of the loop after the name.
mixin_arguments_named(s, o, args, separator, name) ==
    LET on_dots(d) ==
        IF d.st = "ok" THEN Ok(d.pos, Append(args, ArgVariadic(name)))
        ELSE mixin_arguments_push(s, o, args, separator, name,
                 mixin_argument_option(o, mixin_argument_value(name.some, separator, s, o)))
    IN  on_dots(symbol(<<".", ".", ".">>, s, o))

\* One turn of the loop of mixin_arguments and the turns after it.
mixin_arguments_loop(s, o, args, separator) ==
    LET on_name(n) ==
        IF n.st = "ok"
        THEN mixin_arguments_named(s, n.pos, args, separator, Some(n.val))
        ELSE mixin_arguments_named(s, o, args, separator, None)
    IN  on_name(at_keyword(s, o))

mixin_arguments(s, o) == mixin_arguments_loop(s, o, <<>>, "Comma")

\* map_res(mixin_arguments, |args| args.into_iter().map(TryInto::try_into).collect())
mixin_call_arguments(s, o) ==
    LET on_c(pos, c) == IF c.ok THEN Ok(pos, c.args) ELSE Fail
        on_args(a) == IF a.st # "ok" THEN a ELSE on_c(a.pos, call_arguments_collect(a.val))
    IN  on_args(mixin_arguments(s, o))

MixinCall(selector, arguments) == [selector |-> selector, arguments |-> arguments]

\* mixin.rs mixin_call: the selector, "(", the arguments, ")".
mixin_call_text(s, o) ==
    LET on_args(sel, a) ==
            IF a.st # "ok" THEN a
            ELSE mapped(symbol(<<")">>, s, a.pos), MixinCall(sel, a.val))
        on_open(sel, op) ==
            IF op.st # "ok" THEN op ELSE on_args(sel, applied("mixin_call_arguments", s, op.pos))
        on_sel(sel) ==
            IF sel.st # "ok" THEN sel ELSE on_open(sel.val, symbol(<<"(">>, s, sel.pos))
    IN  on_sel(mixin_selector(s, o))

mixin_call_expression(s, o) ==
    LET on_c(c) ==
        IF c.st = "ok" THEN Ok(c.pos, [e |-> "MixinCall", call |-> c.val, lookups |-> <<>>])
        ELSE c
    IN  on_c(mixin_call_text(s, o))

----------------------------------------------------------------------------

simple_expression(s, o) ==
    choice(<<numeric_value(s, o),
             string_expr("\"", s, o),
             string_expr("'", s, o),
             variable_or_lookup(s, o),
             property(s, o),
             function_call_expr(s, o),
             mixin_call_expression(s, o),
             ident_value(s, o),
             sub(s, o)>>)

\* The parsers this file hands to its combinators (binary_operation,
\* separated_list1), applied at an offset.
applied(f, s, o) ==
    CASE f = "comparison_operation" -> comparison_operation(s, o)
      [] f = "sum_operation" -> sum_operation(s, o)
      [] f = "product_operation" -> product_operation(s, o)
      [] f = "simple_expression" -> simple_expression(s, o)
      [] f = "boolean_expression" -> boolean_expression(s, o)
      [] f = "logical_operation" -> logical_operation(s, o)
      [] f = "function_args" -> function_args(s, o)
      [] f = "mixin_call_arguments" -> mixin_call_arguments(s, o)
      [] f = "detached_ruleset" -> detached_ruleset(s, o)
      [] f = "comma_separated_arg_value" -> comma_separated_arg_value(s, o)
      [] f = "semicolon_separated_arg_value" -> semicolon_separated_arg_value(s, o)
      [] f = "space_list" -> space_list(s, o)
      [] f = "arg" -> choice(<<detached_ruleset(s, o), comma_separated_arg_value(s, o)>>)
      [] f = "comma_list_of_arg" -> comma_list("arg", s, o)
      [] f = "variable_or_lookup" -> variable_or_lookup(s, o)
      [] f = "mixin_arguments" -> mixin_arguments(s, o)
      [] f = "mixin_call" -> mixin_call_text(s, o)

----------------------------------------------------------------------------
(* The text parsers applied to the input *)

\* boolean_expression(input)
BooleanExpression ==
    /\ pc = "start"
    /\ parsed' = applied("boolean_expression", input, 0)
    /\ pc' = "expression"
    /\ UNCHANGED <<input, lexed, pick, relexed, stream, ideal, tokenizer>>

NextBoolean == BooleanExpression

\* Two operands, bare and beside a space, and the comparison characters.
ComparisonWords ==
    {<<"a">>, <<"b">>, <<"a", " ">>, <<" ", "b">>, <<"=">>, <<"<">>, <<">">>, <<" ">>}

ComparisonTexts == Concats(ComparisonWords, MaxWords)

SpecComparison == InitWith(ComparisonTexts) /\ [][NextBoolean]_vars

\* The comparison operators as they are written and as they are named.
ComparisonOperators ==
    {<<(<<"=">>), "Equality">>,
     <<(<<"<">>), "LessThan">>,
     <<(<<"<", "=">>), "LessThanOrEqualTo">>,
     <<(<<">">>), "GreaterThan">>,
     <<(<<">", "=">>), "GreaterThanOrEqualTo">>}

Operands == {<<"a">>, <<"b">>}

\* C12: boolean_expression parses `x op y`, written with or without spaces
\* around the operator, for each of the five comparison operators =, <, <=, >
\* and >= and identifiers x and y, into BinaryOperation(op, Ident(x), Ident(y))
\* with the operator's own name, and consumes the whole input.
C12_EachComparisonOperatorParses ==
    pc = "expression" =>
        \A x \in Operands, y \in Operands, op \in ComparisonOperators, sp \in {<<>>, <<" ">>} :
            input = x \o sp \o op[1] \o sp \o y =>
                parsed = Ok(Len(input),
                            BinaryOperation(op[2], ExprNamed("Ident", x), ExprNamed("Ident", y)))

\* Operands and operators of every level before an operand, and the end
\* of a parenthesis.
PrecedenceWords ==
    {<<"x">>, <<"+", "y">>, <<" ", "-", " ", "z">>, <<"*", "y">>,
     <<"/", "z">>, <<"<", "x">>, <<" ", "a", "n", "d", " ", "z">>, <<"+", "y", ")">>}

\* The start of a parenthesis, as the first operand or after an operator.
OpenWords == {<<>>, <<"(", "x">>, <<"*", "(", "x">>}

\* At most one parenthesis in a text.
PrecedenceTexts ==
    {a \o m \o b : a \in {<<>>, <<"x">>}, m \in OpenWords,
                   b \in Concats(PrecedenceWords, MaxWords - 1)}

SpecPrecedence == InitWith(PrecedenceTexts) /\ [][NextBoolean]_vars

\* The words of an expression text: the characters apart from spaces, with
\* `and` read as one word.
RECURSIVE ExpressionWords(_, _)
ExpressionWords(s, o) ==
    IF o >= Len(s) THEN <<>>
    ELSE IF s[o + 1] = " " THEN ExpressionWords(s, o + 1)
    ELSE IF s[o + 1] = "a" THEN <<"and">> \o ExpressionWords(s, o + 3)
    ELSE <<s[o + 1]>> \o ExpressionWords(s, o + 1)

\* The binding strength of an operator word, 0 for any other word.
LevelOf(w) ==
    CASE w = "and" -> 1
      [] w \in {"<", "="} -> 2
      [] w \in {"+", "-"} -> 3
      [] w \in {"*", "/"} -> 4
      [] OTHER -> 0

OperatorOf(w) ==
    CASE w = "and" -> "And"
      [] w = "<" -> "LessThan"
      [] w = "=" -> "Equality"
      [] w = "+" -> "Add"
      [] w = "-" -> "Subtract"
      [] w = "*" -> "Multiply"
      [] w = "/" -> "Divide"

\* The operators of ws that stand outside every pair of parentheses.
TopOperators(ws) ==
    {k \in 1..Len(ws) :
        /\ LevelOf(ws[k]) > 0
        /\ Cardinality({j \in 1..k : ws[j] = "("}) = Cardinality({j \in 1..k : ws[j] = ")"})}

\* The operator the reference grouping splits at: the last of the weakest.
SplitAt(ws) ==
    CHOOSE k \in TopOperators(ws) :
        \A j \in TopOperators(ws) :
            \/ LevelOf(ws[j]) > LevelOf(ws[k])
            \/ LevelOf(ws[j]) = LevelOf(ws[k]) /\ j <= k

\* ws is operand (operator operand)*, an operand being x, y, z or such a
\* sequence in parentheses.
RECURSIVE WellFormed(_)
WellFormed(ws) ==
    IF TopOperators(ws) = {}
    THEN \/ Len(ws) = 1 /\ ws[1] \in {"x", "y", "z"}
         \/ /\ Len(ws) >= 3
            /\ ws[1] = "(" /\ ws[Len(ws)] = ")"
            /\ WellFormed(SubSeq(ws, 2, Len(ws) - 1))
    ELSE /\ WellFormed(SubSeq(ws, 1, SplitAt(ws) - 1))
         /\ WellFormed(SubSeq(ws, SplitAt(ws) + 1, Len(ws)))

\* The reference grouping of a well-formed sequence: tighter levels group
\* first, equal levels group to the left, parentheses leave no node.
RECURSIVE Reference(_)
Reference(ws) ==
    IF TopOperators(ws) = {}
    THEN IF Len(ws) = 1 THEN ExprNamed("Ident", <<ws[1]>>)
         ELSE Reference(SubSeq(ws, 2, Len(ws) - 1))
    ELSE BinaryOperation(OperatorOf(ws[SplitAt(ws)]),
                         Reference(SubSeq(ws, 1, SplitAt(ws) - 1)),
                         Reference(SubSeq(ws, SplitAt(ws) + 1, Len(ws))))

\* C13: for every text that is operand (operator operand)*, with operands that
\* may be parenthesised sequences, boolean_expression consumes the whole text
\* and returns the reference grouping: * and / bind tighter than + and -, those
\* tighter than comparisons, those tighter than and; equal levels group to the
\* left; a parenthesised sequence is the operand itself, without a node of its own.
C13_TreeIsReferenceGrouping ==
    (pc = "expression" /\ WellFormed(ExpressionWords(input, 0))) =>
        parsed = Ok(Len(input), Reference(ExpressionWords(input, 0)))

\* `(x+y)*y - z` has been parsed: the sum in parentheses is the left operand of
\* the product, and the product the left operand of the difference.
C13_Witness ==
    /\ pc = "expression"
    /\ input = <<"(", "x", "+", "y", ")", "*", "y", " ", "-", " ", "z">>
    /\ parsed.st = "ok"
    /\ parsed.val.op = "Subtract"
    /\ parsed.val.left.op = "Multiply"
    /\ parsed.val.left.left = BinaryOperation("Add", ExprNamed("Ident", <<"x">>), ExprNamed("Ident", <<"y">>))

\* mixin_arguments(input)
MixinArguments ==
    /\ pc = "start"
    /\ parsed' = applied("mixin_arguments", input, 0)
    /\ pc' = "mixin_arguments"
    /\ UNCHANGED <<input, lexed, pick, relexed, stream, ideal, tokenizer>>

NextArguments == MixinArguments

\* Slots with and without a name and a value, and the two separators before a slot.
ArgumentWords ==
    {<<"a">>, <<"@", "x">>, <<"@", "x", ":", "a">>, <<",", "b">>, <<",", "@", "y">>,
     <<";">>, <<";", "b">>, <<";", "a", ",", "b">>, <<";", "@", "y", ":", "a", ",", "b">>}

ArgumentTexts == Concats(ArgumentWords, MaxWords)

SpecArguments == InitWith(ArgumentTexts) /\ [][NextArguments]_vars

\* The offset of the first c in s, counted from 1, or 0.
FirstOf(s, c) ==
    IF \E k \in 1..Len(s) : s[k] = c
    THEN CHOOSE k \in 1..Len(s) : s[k] = c /\ \A j \in 1..(k - 1) : s[j] # c
    ELSE 0

\* The parts of s between the characters c.
RECURSIVE PartsOf(_, _)
PartsOf(s, c) ==
    IF FirstOf(s, c) = 0 THEN <<s>>
    ELSE <<SubSeq(s, 1, FirstOf(s, c) - 1)>> \o PartsOf(SubSeq(s, FirstOf(s, c) + 1, Len(s)), c)

ValueChars == {"a", "b"}

\* The value a comma-separated slot holds for the text v.
WrittenValue(v) == ExprList("SpaceList", <<ExprNamed("Ident", <<v>>)>>)

IsPositionalSlot(t) == Len(t) = 1 /\ t[1] \in ValueChars
IsNamedSlot(t) ==
    /\ Len(t) \in {2, 4}
    /\ t[1] = "@" /\ t[2] \in {"x", "y"}
    /\ Len(t) = 4 => (t[3] = ":" /\ t[4] \in ValueChars)

\* The values written in the slots ts, in source order.
RECURSIVE WrittenValues(_)
WrittenValues(ts) ==
    IF ts = <<>> THEN <<>>
    ELSE (IF Len(ts[1]) \in {1, 4} THEN <<WrittenValue(ts[1][Len(ts[1])])>> ELSE <<>>)
         \o WrittenValues(Tail(ts))

\* The slots written before the first `;` and the text after it.
CommaSlots == PartsOf(SubSeq(input, 1, FirstOf(input, ";") - 1), ",")
AfterSemicolon == SubSeq(input, FirstOf(input, ";") + 1, Len(input))
LaterSlots == IF AfterSemicolon = <<>> THEN <<>> ELSE PartsOf(AfterSemicolon, ";")

\* A later slot is a list of values between commas, with or without a name.
LaterBody(t) == IF Len(t) > 3 /\ t[1] = "@" THEN SubSeq(t, 4, Len(t)) ELSE t
IsLaterSlot(t) ==
    /\ t # <<>>
    /\ t[1] = "@" => (Len(t) > 3 /\ t[2] \in {"x", "y"} /\ t[3] = ":")
    /\ \A k \in 1..Len(PartsOf(LaterBody(t), ",")) : IsPositionalSlot(PartsOf(LaterBody(t), ",")[k])

LaterArgument(t) ==
    IF t[1] = "@"
    THEN ArgVariable(<<t[2]>>, Some(ExprList("CommaList", WrittenValues(PartsOf(LaterBody(t), ",")))))
    ELSE ArgLiteral(ExprList("CommaList", WrittenValues(PartsOf(LaterBody(t), ","))))

\* The case of the claim: a first `;` after k >= 1 slots between commas, the
\* slots after the first one positional, and well-formed slots after it.
SemicolonAfterCommaSlots ==
    /\ pc = "mixin_arguments"
    /\ FirstOf(input, ";") > 1
    /\ IsPositionalSlot(CommaSlots[1]) \/ IsNamedSlot(CommaSlots[1])
    /\ \A k \in 2..Len(CommaSlots) : IsPositionalSlot(CommaSlots[k])
    /\ \A k \in 1..Len(LaterSlots) : IsLaterSlot(LaterSlots[k])

\* The slots after the folded one: one for each part between `;`, its value a
\* comma-list of the values between its commas.
LaterSlotsAreCommaLists ==
    /\ parsed.st = "ok" /\ parsed.pos = Len(input)
    /\ Len(parsed.val) = 1 + Len(LaterSlots)
    /\ \A k \in 1..Len(LaterSlots) : parsed.val[k + 1] = LaterArgument(LaterSlots[k])

\* The first `;` replaces the k slots by one slot that keeps the first slot's
\* name and whose value is the CommaList of the k slots' values.
C14_FoldedSlotAlwaysHasCommaList ==
    SemicolonAfterCommaSlots =>
        /\ LaterSlotsAreCommaLists
        /\ parsed.val[1] =
               IF IsNamedSlot(CommaSlots[1])
               THEN ArgVariable(<<CommaSlots[1][2]>>, Some(ExprList("CommaList", WrittenValues(CommaSlots))))
               ELSE ArgLiteral(ExprList("CommaList", WrittenValues(CommaSlots)))

\* C14: in mixin_arguments, when the first `;` is met after k >= 1 slots
\* between commas of which slots 2..k are positional, the slots are replaced by
\* one slot that keeps the first slot's name, if it had one, and whose value is
\* the CommaList of the values the k slots hold, in source order, or no value
\* when none of them holds one (a lone named slot without a value); after that
\* every `;` starts a slot, no `,` does, and every later value is a comma-list.
C14_FoldedSlotKeepsNameAndValues ==
    SemicolonAfterCommaSlots =>
        /\ LaterSlotsAreCommaLists
        /\ parsed.val[1] =
               IF IsNamedSlot(CommaSlots[1])
               THEN ArgVariable(<<CommaSlots[1][2]>>,
                                IF WrittenValues(CommaSlots) = <<>> THEN None
                                ELSE Some(ExprList("CommaList", WrittenValues(CommaSlots))))
               ELSE ArgLiteral(ExprList("CommaList", WrittenValues(CommaSlots)))

\* `@x:a,b;a,b` has been parsed: two slots, the first one named x with the two
\* values before the `;`, the second one a comma-list of the two values after it.
C14_Witness ==
    /\ SemicolonAfterCommaSlots
    /\ input = <<"@", "x", ":", "a", ",", "b", ";", "a", ",", "b">>
    /\ Len(parsed.val) = 2
    /\ parsed.val[1].arg = "Variable"
    /\ Len(parsed.val[1].value.v.values) = 2
    /\ parsed.val[2].value.e = "CommaList"

----------------------------------------------------------------------------
(* src/src/stream.rs: Stream over an iterator, with a look-ahead buffer of a
   fixed capacity (ArrayDeque<A, Saturating>: a push on a full buffer returns
   Err and stores nothing). *)

\* The items of the underlying iterator; after them next() returns None.
Items == [k \in 1..MaxItems |-> k]

\* L::next() on the iterator that has `rest` left.
iter_next(rest) == IF rest = <<>> THEN None ELSE Some(Head(rest))

\* Stream::new
stream_new == [input |-> Items, current |-> None, buffer |-> <<>>, st |-> "ok"]

\* No call has been made yet.
NoCall == [op |-> "none", index |-> 0, ret |-> None, expected |-> None]

\* The stream a client expects: `taken` items consumed so far, and `again`
\* pending repeats of the value `cur` of the last consume().
ideal_new == [taken |-> 0, again |-> 0, cur |-> None, calls |-> 0, last |-> NoCall]

\* The value the k-th following consume() is expected to return.
Expected(k) ==
    IF k <= ideal.again THEN ideal.cur
    ELSE IF ideal.taken + (k - ideal.again) <= Len(Items)
    THEN Some(Items[ideal.taken + (k - ideal.again)])
    ELSE None

\* Stream::consume: the front of the buffer, or the next item of the iterator.
consume(st) ==
    IF st.buffer # <<>>
    THEN [st EXCEPT !.current = Head(st.buffer), !.buffer = Tail(st.buffer)]
    ELSE [st EXCEPT !.current = iter_next(st.input),
                    !.input = IF st.input = <<>> THEN <<>> ELSE Tail(st.input)]

\* Stream::reconsume_current: push_front(current).unwrap() panics on a full buffer.
reconsume_current(st) ==
    IF Len(st.buffer) >= Capacity THEN [st EXCEPT !.st = "panic"]
    ELSE [st EXCEPT !.buffer = <<st.current>> \o st.buffer]

\* while (index + 1) as usize > self.buffer.len() { push_back(input.next()) }:
\* on a full buffer the push stores nothing, the length stays and the loop
\* goes on taking items for ever.
RECURSIVE fill(_, _)
fill(st, index) ==
    IF index + 1 <= Len(st.buffer) THEN st
    ELSE IF Len(st.buffer) >= Capacity THEN [st EXCEPT !.input = <<>>, !.st = "hang"]
    ELSE fill([st EXCEPT !.buffer = Append(st.buffer, iter_next(st.input)),
                         !.input = IF st.input = <<>> THEN <<>> ELSE Tail(st.input)],
              index)

\* PeekAt::peek_at for index >= -1: the stream after the call.
peek_at(st, index) == IF index = -1 THEN st ELSE fill(st, index)

\* The value peek_at returns when it returns.
peek_at_value(st, index) ==
    IF index = -1 THEN st.current
    ELSE IF index + 1 <= Len(st.buffer) THEN st.buffer[index + 1]
    ELSE None

Running == stream.st = "ok" /\ ideal.calls < MaxCalls

\* stream.consume()
Consume ==
    /\ pc = "stream" /\ Running
    /\ stream' = consume(stream)
    /\ ideal' = [taken |-> IF ideal.again > 0 THEN ideal.taken
                           ELSE IF ideal.taken < Len(Items) THEN ideal.taken + 1
                           ELSE ideal.taken,
                 again |-> IF ideal.again > 0 THEN ideal.again - 1 ELSE 0,
                 cur |-> Expected(1),
                 calls |-> ideal.calls + 1,
                 last |-> [op |-> "consume", index |-> 0,
                           ret |-> consume(stream).current, expected |-> Expected(1)]]
    /\ UNCHANGED <<input, pc, lexed, pick, relexed, parsed, tokenizer>>

\* stream.reconsume_current()
ReconsumeCurrent ==
    /\ pc = "stream" /\ Running
    /\ stream' = reconsume_current(stream)
    /\ ideal' = [ideal EXCEPT !.again = ideal.again + 1,
                              !.calls = ideal.calls + 1,
                              !.last = [op |-> "reconsume_current", index |-> 0,
                                        ret |-> None, expected |-> None]]
    /\ UNCHANGED <<input, pc, lexed, pick, relexed, parsed, tokenizer>>

\* stream.peek_at(index)
PeekAt(index) ==
    /\ pc = "stream" /\ Running
    /\ stream' = peek_at(stream, index)
    /\ ideal' = [ideal EXCEPT !.calls = ideal.calls + 1,
                              !.last = [op |-> "peek_at", index |-> index,
                                        ret |-> peek_at_value(peek_at(stream, index), index),
                                        expected |-> IF index = -1 THEN ideal.cur
                                                     ELSE Expected(index + 1)]]
    /\ UNCHANGED <<input, pc, lexed, pick, relexed, parsed, tokenizer>>

\* peek_at with an index the buffer can hold
PeekWithinCapacity == \E index \in -1..(Capacity - 1) : PeekAt(index)

\* peek_at with any index from -1 on
PeekAnywhere == \E index \in -1..(Capacity + 1) : PeekAt(index)

InitStream ==
    /\ input = <<>>
    /\ pc = "stream"
    /\ lexed = NoResult
    /\ pick = NoPick
    /\ relexed = NoResult
    /\ parsed = NoResult
    /\ tokenizer = NoTokenizer
    /\ stream = stream_new
    /\ ideal = ideal_new

NextStream == Consume \/ ReconsumeCurrent \/ PeekWithinCapacity

SpecStream == InitStream /\ [][NextStream]_vars

NextStreamPeek == Consume \/ ReconsumeCurrent \/ PeekAnywhere

SpecStreamPeek == InitStream /\ [][NextStreamPeek]_vars

\* C29: under any interleaving of consume(), peek_at(i) for -1 <= i below the
\* capacity and reconsume_current(), every call returns: peek_at(-1) returns
\* the value of the last consume(), peek_at(i) the value the (i+1)-th
\* following consume() returns, no peek changes what consume() returns later,
\* the consume() after a reconsume_current() returns the same value again, and
\* apart from those repeats consume() returns the iterator's items in order.
C29_CallsReturnTheExpectedValues ==
    pc = "stream" => (stream.st = "ok" /\ ideal.last.ret = ideal.last.expected)

\* C30: peek_at(index) returns for every index >= -1 after every sequence of
\* calls, also when index + 1 exceeds the capacity or the buffer is full: the
\* fill loop ends, and every item it took from the iterator is in the buffer,
\* so the items consumed, buffered and left make up the iterator's items.
C30_PeekAtReturnsAndKeepsItems ==
    (pc = "stream" /\ ideal.last.op = "peek_at") => stream.st = "ok"

----------------------------------------------------------------------------
(* Comments, hashes and identifier starts in the lexer *)

\* Texts of comments: slashes, stars, newlines, names and parentheses.
CommentTexts ==
    Concats({<<"/", "*">>, <<"*", "/">>, <<"/">>, <<"*">>, <<"a">>, <<"\n">>, <<"(">>, <<")">>},
            MaxLen)

SpecComment == InitWith(CommentTexts) /\ [][NextLex]_vars

\* Offset of the "/*" that opens a block comment with no "*/" after it,
\* reading s from o and passing over line comments and closed block
\* comments; -1 if there is none.
RECURSIVE UnterminatedComment(_, _)
UnterminatedComment(s, o) ==
    IF At(s, o) = EOF THEN -1
    ELSE IF At(s, o) = "/" /\ At(s, o + 1) = "/"
    THEN UnterminatedComment(s, LineEnd(s, o + 2))
    ELSE IF At(s, o) = "/" /\ At(s, o + 1) = "*"
    THEN IF At(s, BlockBodyEnd(s, o + 2)) = EOF THEN o
         ELSE UnterminatedComment(s, BlockBodyEnd(s, o + 2) + 2)
    ELSE UnterminatedComment(s, o + 1)

\* C22: when a block comment opens at offset k and no "*/" follows, the
\* lexer succeeds and its last token is Comment holding the text from k + 2
\* to the end of the input, with the span k..len.
C22_UnterminatedCommentIsLastToken ==
    (pc = "lexed" /\ UnterminatedComment(input, 0) >= 0) =>
        /\ lexed.st = "ok"
        /\ Len(lexed.val) >= 1
        /\ lexed.val[Len(lexed.val)] =
              Spanned(TTToken(Tok("Comment",
                                  Slice(input, UnterminatedComment(input, 0) + 2, Len(input)),
                                  <<>>)),
                      SpanOf(UnterminatedComment(input, 0), Len(input)))

\* An unterminated comment with a body, after other tokens.
C22_Witness ==
    /\ pc = "lexed" /\ lexed.st = "ok"
    /\ UnterminatedComment(input, 0) >= 1
    /\ UnterminatedComment(input, 0) + 2 < Len(input)

\* C23: every Hash token of a successful result has a non-empty text.
C23_HashTextIsNonEmpty ==
    (pc = "lexed" /\ lexed.st = "ok") =>
        \A t \in AllTrees(lexed.val) :
            (t.tt.type = "Token" /\ t.tt.tok.kind = "Hash") => t.tt.tok.text # <<>>

\* would_start_identifier(input)
WouldStartIdentifier ==
    /\ pc = "start"
    /\ parsed' = Ok(0, would_start_identifier(input, 0))
    /\ pc' = "would_start"
    /\ UNCHANGED <<input, lexed, pick, relexed, stream, ideal, tokenizer>>

NextStart == WouldStartIdentifier

\* Texts of the characters would_start_identifier tells apart.
StartTexts ==
    Concats({<<"-">>, <<"a">>, <<"_">>, <<"U+00E9">>, <<"0">>, <<"\\">>, <<"\n">>, <<" ">>},
            MaxTokLen)

SpecStart == InitWith(StartTexts) /\ [][NextStart]_vars

\* A character is there and is not a newline.
NotNewline(c) == c # EOF /\ c # "\n"

\* The texts that start an identifier: "-" then a name-start character or
\* "-"; "-" then a backslash then a character other than newline; a
\* name-start character; a backslash then a character other than newline.
StartsIdentifier(s) ==
    \/ At(s, 0) = "-" /\ At(s, 1) # EOF /\ (is_name_start(At(s, 1)) \/ At(s, 1) = "-")
    \/ At(s, 0) = "-" /\ At(s, 1) = "\\" /\ NotNewline(At(s, 2))
    \/ At(s, 0) # EOF /\ is_name_start(At(s, 0))
    \/ At(s, 0) = "\\" /\ NotNewline(At(s, 1))

\* C24: would_start_identifier(s) is true exactly for the texts that start
\* an identifier.
C24_WouldStartIdentifierTable ==
    pc = "would_start" => (parsed.val <=> StartsIdentifier(input))

\* C27: the lexer returns for every input, and every token-tree of a
\* successful result, at any depth, has span.end > span.start.
C27_EveryTokenTreeMakesProgress ==
    pc = "lexed" =>
        /\ lexed.st # "abort"
        /\ lexed.st = "ok" => \A t \in AllTrees(lexed.val) : t.span.end > t.span.start

----------------------------------------------------------------------------
(* Item spans *)

\* The items of one list lie within the span `within`, each starts where or
\* after the one before it ends, and the items of every block do so within
\* the span of the Brace tree the block was parsed from.
RECURSIVE ItemsInOrder(_, _, _)
ItemsInOrder(items, tts, within) ==
    /\ \A k \in 1..Len(items) :
          /\ within.start <= items[k].span.start
          /\ items[k].span.start <= items[k].span.end
          /\ items[k].span.end <= within.end
    /\ \A k \in 1..(Len(items) - 1) : items[k + 1].span.start >= items[k].span.end
    /\ \A k \in 1..Len(items) :
          items[k].block.some =>
              /\ is_tree(tts[items[k].to], "Brace")
              /\ ItemsInOrder(items[k].block.items, tts[items[k].to].tt.items,
                              tts[items[k].to].span)

\* C25: in the stylesheet and in every block of a parse result, the span of
\* each item starts at or after the end of the span of the item before it,
\* and the span of every item of a block lies inside the span of the Brace
\* tree of the block.
C25_ItemSpansInOrder ==
    (pc = "parsed" /\ parsed.st = "ok") =>
        ItemsInOrder(parsed.val, lexed.val, SpanOf(0, Len(input)))

\* A block that holds two items side by side.
C25_Witness ==
    /\ pc = "parsed" /\ parsed.st = "ok"
    /\ \E p \in ParsedItems :
          /\ p.it.block.some /\ Len(p.it.block.items) >= 2
          /\ p.it.block.items[2].span.start > p.it.span.start

----------------------------------------------------------------------------
(* List nodes *)

ListKinds == {"SemicolonList", "CommaList", "SpaceList"}

\* Every list node of the expression e, at any depth.
RECURSIVE ListNodes(_)
ListNodes(e) ==
    CASE e.e \in ListKinds ->
             {e} \cup UNION {ListNodes(e.values[k]) : k \in 1..Len(e.values)}
      [] e.e = "BinaryOperation" -> ListNodes(e.left) \cup ListNodes(e.right)
      [] e.e = "FunctionCall" -> ListNodes(e.args)
      [] OTHER -> {}

\* Every list node of the values of a list of mixin arguments.
ArgumentListNodes(args) ==
    UNION {IF args[k].arg = "Literal" THEN ListNodes(args[k].value)
           ELSE IF args[k].arg = "Variable" /\ args[k].value.some
           THEN ListNodes(args[k].value.v)
           ELSE {}
           : k \in 1..Len(args)}

\* Mixin arguments with function calls, spaces, commas and semicolons.
ListWords ==
    {<<"a">>, <<" ", "b">>, <<",">>, <<";">>, <<")">>, <<";", "a", ")">>, <<"@", "x", ":">>,
     <<"@", "x">>}

ListTexts ==
    {p \o t : p \in {<<>>, <<"f", "(">>}, t \in Concats(ListWords, MaxWords)}

SpecLists == InitWith(ListTexts) /\ [][NextArguments]_vars

\* C21: every SemicolonList, CommaList and SpaceList node of the arguments
\* that mixin_arguments returns, whether parsed or built by the fold that
\* makes the arguments semicolon-separated, has at least one element.
C21_ListsAreNonEmpty ==
    (pc = "mixin_arguments" /\ parsed.st = "ok") =>
        \A l \in ArgumentListNodes(parsed.val) : Len(l.values) >= 1

\* A SemicolonList of a function call and a CommaList built by the fold.
C21_Witness ==
    /\ pc = "mixin_arguments" /\ parsed.st = "ok"
    /\ \E l \in ArgumentListNodes(parsed.val) : l.e = "SemicolonList" /\ Len(l.values) >= 2
    /\ \E k \in 1..Len(parsed.val) :
          /\ parsed.val[k].arg = "Literal"
          /\ parsed.val[k].value.e = "CommaList"

----------------------------------------------------------------------------
(* The streaming tokenizer of src/src/tokenizer/mod.rs.  A text is a       *)
(* sequence of ASCII characters, so that position counts characters.       *)

\* enum Token of the tokenizer: value is the text a token holds, flag its
\* is_id or is_integer, unit the unit of a Dimension.
Token(kind, value, flag, unit) ==
    [kind |-> kind, value |-> value, flag |-> flag, unit |-> unit]

Plain(kind) == Token(kind, <<>>, FALSE, <<>>)

Delim(c) == Token("Delim", <<c>>, FALSE, <<>>)

\* The value the code gives a name or a string that holds a backslash.
EscapeCodepoints == <<"<ESCAPE CODEPOINTS>">>

\* What a consume_ method leaves: the position and the value it returns.
At2(pos, val) == [pos |-> pos, val |-> val]

\* tokenizer/helpers.rs: is_valid_escape(c1, c2) and
\* would_start_identifier(c1, c2, c3) on characters that are there.
is_valid_escape2(c1, c2) == c1 = "\\" /\ c2 # "\n"

would_start_identifier3(c1, c2, c3) ==
    IF c1 = "-" THEN is_name_start(c2) \/ c2 = "-" \/ is_valid_escape2(c2, c3)
    ELSE IF is_name_start(c1) THEN TRUE
    ELSE IF c1 = "\\" THEN is_valid_escape2(c1, c2)
    ELSE FALSE

would_start_number(c1, c2, c3) ==
    IF c1 \in {"+", "-"} THEN is_digit(c2) \/ (c2 = "." /\ is_digit(c3))
    ELSE IF c1 = "." THEN is_digit(c2)
    ELSE is_digit(c1)

\* lookahead_triple and lookahead_pair: the next characters, EOF for None.
lookahead_triple(s, p) == <<At(s, p), At(s, p + 1), At(s, p + 2)>>

lookahead_pair(s, p) == <<At(s, p), At(s, p + 1)>>

\* The pattern (Some(c1), Some(c2), Some(c3)).
all_some(t) == \A k \in 1..Len(t) : t[k] # EOF

\* would_start_identifier as it would be asked of the characters that are
\* there, with a missing character read as one that starts nothing.
starts_identifier_at(s, p) ==
    /\ At(s, p) # EOF
    /\ would_start_identifier3(At(s, p), At(s, p + 1), At(s, p + 2))

\* (Some(c1), Some(c2), Some(c3)) if would_start_identifier(c1, c2, c3)
starts_identifier(s, p) ==
    /\ all_some(lookahead_triple(s, p))
    /\ would_start_identifier3(At(s, p), At(s, p + 1), At(s, p + 2))

starts_number(s, p) ==
    /\ all_some(lookahead_triple(s, p))
    /\ would_start_number(At(s, p), At(s, p + 1), At(s, p + 2))

\* consume_name: the run of name characters; at a backslash the loop is
\* left without consuming it and the placeholder value is returned.
consume_name(s, p) ==
    IF At(s, NameEnd(s, p)) = "\\" THEN At2(NameEnd(s, p), EscapeCodepoints)
    ELSE At2(NameEnd(s, p), Slice(s, p, NameEnd(s, p)))

\* consume_number: sign, digits, fraction, exponent.
number_fraction_end(s, p) ==
    IF At(s, p) = "." /\ is_digit(At(s, p + 1)) THEN DigitsEnd(s, p + 2) ELSE p

number_exponent_end(s, p) ==
    IF At(s, p) \in {"e", "E"}
    THEN IF is_digit(At(s, p + 1)) THEN DigitsEnd(s, p + 1)
         ELSE IF At(s, p + 1) \in {"+", "-"} /\ is_digit(At(s, p + 2))
         THEN DigitsEnd(s, p + 3)
         ELSE p
    ELSE p

consume_number(s, p) ==
    LET signed == IF At(s, p) \in {"+", "-"} THEN p + 1 ELSE p
        whole == DigitsEnd(s, signed)
        fraction == number_fraction_end(s, whole)
        exponent == number_exponent_end(s, fraction)
    IN  At2(exponent, [value |-> Slice(s, p, exponent), is_integer |-> exponent = whole])

consume_numeric(s, p) ==
    LET n == consume_number(s, p)
    IN  IF starts_identifier(s, n.pos)
        THEN At2(consume_name(s, n.pos).pos,
                 Token("Dimension", n.val.value, n.val.is_integer, consume_name(s, n.pos).val))
        ELSE IF At(s, n.pos) = "%"
        THEN At2(n.pos + 1, Token("Percentage", n.val.value, FALSE, <<>>))
        ELSE At2(n.pos, Token("Number", n.val.value, n.val.is_integer, <<>>))

\* The loop of consume_identlike after "url(": while two whitespace
\* characters follow, one is consumed.
RECURSIVE UrlWhitespaceEnd(_, _)
UrlWhitespaceEnd(s, p) ==
    IF At(s, p) \in WhitespaceChars /\ At(s, p + 1) \in WhitespaceChars
    THEN UrlWhitespaceEnd(s, p + 1)
    ELSE p

eq_ignore_ascii_case_url(v) ==
    /\ Len(v) = 3
    /\ v[1] \in {"u", "U"} /\ v[2] \in {"r", "R"} /\ v[3] \in {"l", "L"}

\* consume_url returns Token::Url and consumes nothing.
consume_identlike(s, p) ==
    LET n == consume_name(s, p)
        q == UrlWhitespaceEnd(s, n.pos + 1)
    IN  IF At(s, n.pos) = "("
        THEN IF eq_ignore_ascii_case_url(n.val)
             THEN IF \/ At(s, q) \in {"\"", "'"}
                     \/ At(s, q) \in WhitespaceChars /\ At(s, q + 1) \in {"\"", "'"}
                  THEN At2(q, Token("Function", n.val, FALSE, <<>>))
                  ELSE At2(q, Plain("Url"))
             ELSE At2(n.pos, Token("Function", n.val, FALSE, <<>>))
        ELSE At2(n.pos, Token("Ident", n.val, FALSE, <<>>))

\* consume_string_tail from o, the string having started at start.
RECURSIVE consume_string_tail(_, _, _, _)
consume_string_tail(s, start, o, ending) ==
    IF At(s, o) = ending THEN At2(o + 1, Token("String", Slice(s, start, o + 1), FALSE, <<>>))
    ELSE IF At(s, o) = EOF THEN At2(o, Token("String", Slice(s, start, o), FALSE, <<>>))
    ELSE IF At(s, o) = "\n" THEN At2(o, Plain("BadString"))
    ELSE IF At(s, o) = "\\" THEN At2(o, Token("String", EscapeCodepoints, FALSE, <<>>))
    ELSE consume_string_tail(s, start, o + 1, ending)

consume_string(s, p, ending) == consume_string_tail(s, p + 1, p + 1, ending)

consume_whitespace(s, p) ==
    At2(WhitespaceEnd(s, p + 1),
        Token("Whitespace", Slice(s, p, WhitespaceEnd(s, p + 1)), FALSE, <<>>))

consume_number_sign(s, p) ==
    IF /\ all_some(lookahead_triple(s, p + 1))
       /\ (is_name(At(s, p + 1)) \/ is_valid_escape2(At(s, p + 1), At(s, p + 2)))
    THEN At2(consume_name(s, p + 1).pos,
             Token("Hash", consume_name(s, p + 1).val,
                   would_start_identifier3(At(s, p + 1), At(s, p + 2), At(s, p + 3)), <<>>))
    ELSE At2(p + 1, Delim("#"))

consume_plus_sign(s, p) ==
    IF starts_number(s, p) THEN consume_numeric(s, p) ELSE At2(p + 1, Delim("+"))

consume_minus_sign(s, p) ==
    IF starts_number(s, p) THEN consume_numeric(s, p)
    ELSE IF At(s, p + 1) = "-" /\ At(s, p + 2) = ">" THEN At2(p + 3, Plain("CDC"))
    ELSE IF starts_identifier(s, p) THEN consume_identlike(s, p)
    ELSE At2(p + 1, Delim("-"))

consume_full_stop(s, p) ==
    IF starts_number(s, p) THEN consume_numeric(s, p) ELSE At2(p + 1, Delim("."))

\* The '@' arm of consume_token.
consume_at_sign(s, p) ==
    IF starts_identifier(s, p + 1)
    THEN At2(consume_name(s, p + 1).pos,
             Token("AtKeyword", consume_name(s, p + 1).val, FALSE, <<>>))
    ELSE At2(p + 1, Delim("@"))

\* The '\\' arm of consume_token.
consume_backslash(s, p) ==
    IF all_some(lookahead_pair(s, p)) /\ is_valid_escape2(At(s, p), At(s, p + 1))
    THEN consume_identlike(s, p)
    ELSE At2(p + 1, Delim("\\"))

SingleCharTokens ==
    [c \in {"(", ")", ",", ":", ";", "[", "]", "{", "}"} |->
        CASE c = "(" -> "LeftParenthesis"
          [] c = ")" -> "RightParenthesis"
          [] c = "," -> "Comma"
          [] c = ":" -> "Colon"
          [] c = ";" -> "Semicolon"
          [] c = "[" -> "LeftSquareBracket"
          [] c = "]" -> "RightSquareBracket"
          [] c = "{" -> "LeftCurlyBracket"
          [] c = "}" -> "RightCurlyBracket"]

\* consume_token with the next character c: val is Some(token), or None at
\* the end of the input.
consume_token(s, p) ==
    LET c == At(s, p)
        some(r) == At2(r.pos, Some(r.val))
    IN  IF c = EOF THEN At2(p, None)
        ELSE IF c \in WhitespaceChars THEN some(consume_whitespace(s, p))
        ELSE IF c = "\"" THEN some(consume_string(s, p, "\""))
        ELSE IF c = "#" THEN some(consume_number_sign(s, p))
        ELSE IF c = "'" THEN some(consume_string(s, p, "'"))
        ELSE IF c \in DOMAIN SingleCharTokens THEN some(At2(p + 1, Plain(SingleCharTokens[c])))
        ELSE IF c = "+" THEN some(consume_plus_sign(s, p))
        ELSE IF c = "-" THEN some(consume_minus_sign(s, p))
        ELSE IF c = "." THEN some(consume_full_stop(s, p))
        ELSE IF c = "<"
        THEN IF <<At(s, p + 1), At(s, p + 2), At(s, p + 3)>> = <<"!", "-", "-">>
             THEN some(At2(p + 1, Plain("CDO")))
             ELSE some(At2(p + 1, Delim("<")))
        ELSE IF c = "@" THEN some(consume_at_sign(s, p))
        ELSE IF c = "\\" THEN some(consume_backslash(s, p))
        ELSE IF is_digit(c) THEN some(consume_numeric(s, p))
        ELSE IF is_name_start(c) THEN some(consume_identlike(s, p))
        ELSE some(At2(p + 1, Delim(c)))

\* Tokenizer::new(input)
TokenizerNew ==
    /\ pc = "start"
    /\ tokenizer' = [position |-> 0, before |-> 0, yielded |-> <<>>, last |-> None]
    /\ pc' = "tokenizer"
    /\ UNCHANGED <<input, lexed, pick, relexed, parsed, stream, ideal>>

\* Iterator::next of the Tokenizer, until it returns None; the tokens a
\* collect() would hold are kept up to MaxTokens of them.
TokenizerNext ==
    /\ pc = "tokenizer"
    /\ LET r == consume_token(input, tokenizer.position)
       IN  /\ tokenizer' =
                 [position |-> r.pos, before |-> tokenizer.position, last |-> r.val,
                  yielded |-> IF r.val.some /\ Len(tokenizer.yielded) < MaxTokens
                              THEN Append(tokenizer.yielded, r.val.v)
                              ELSE tokenizer.yielded]
           /\ pc' = IF r.val.some THEN "tokenizer" ELSE "collected"
    /\ UNCHANGED <<input, lexed, pick, relexed, parsed, stream, ideal>>

NextTokenizer == TokenizerNew \/ TokenizerNext

\* An at-sign, then name characters, then what may follow a name.
AtKeywordTexts ==
    {<<"@">> \o n \o t :
        n \in Concats({<<"a">>, <<"b">>, <<"-">>, <<"1">>}, MaxTokLen),
        t \in {<<>>, <<" ">>, <<";">>, <<"(", ")">>, <<":", " ", "1">>}}

SpecAtKeyword == InitWith(AtKeywordTexts) /\ [][NextTokenizer]_vars

\* The name characters that follow the at-sign of the input.
NameAfterAt == Slice(input, 1, NameEnd(input, 1))

\* C26: for '@' followed by a name of length >= 1 that starts an
\* identifier, the first token is AtKeyword(name), whether or not more
\* input follows the name; otherwise the first token is Delim('@').
C26_AtKeywordForEveryName ==
    (pc \in {"tokenizer", "collected"} /\ Len(tokenizer.yielded) >= 1) =>
        tokenizer.yielded[1] =
            IF starts_identifier_at(input, 1)
            THEN Token("AtKeyword", NameAfterAt, FALSE, <<>>)
            ELSE Delim("@")

\* Texts of names, backslashes, quotes, numbers and signs.
EscapeTexts ==
    Concats({<<"a">>, <<"\\">>, <<"\n">>, <<" ">>, <<"-">>, <<"1">>, <<"\"">>, <<"@">>,
             <<"#">>, <<"(">>, <<"u", "r", "l">>, <<".">>}, MaxTokLen)

SpecTokenizer == InitWith(EscapeTexts) /\ [][NextTokenizer]_vars

\* C28: every call of next() that returns a token leaves position at least
\* one character further than it was.
C28_EveryTokenAdvances ==
    (pc \in {"tokenizer", "collected"} /\ tokenizer.last.some) =>
        tokenizer.position > tokenizer.before

\* mixin_call(input): the selector, `(`, mixin_call_arguments and `)`.
MixinCallText ==
    /\ pc = "start"
    /\ parsed' = applied("mixin_call", input, 0)
    /\ pc' = "mixin_call"
    /\ UNCHANGED <<input, lexed, pick, relexed, stream, ideal, tokenizer>>

NextCall == MixinCallText

\* Slots, separators, a space and the closing, after the opening of a call.
CallArgumentWords ==
    {<<"a">>, <<"@", "x", ":", "b">>, <<",">>, <<";">>, <<" ">>, <<")">>, <<",", "b">>, <<",", ")">>}

CallArgumentTexts == {<<".", "m", "(">> \o t : t \in Concats(CallArgumentWords, MaxWords)}

SpecCallArguments == InitWith(CallArgumentTexts) /\ [][NextCall]_vars

\* The first character of s after offset k (counted from 1) that is no space,
\* or EOF.
RECURSIVE SignificantAfter(_, _)
SignificantAfter(s, k) ==
    IF k >= Len(s) THEN EOF
    ELSE IF s[k + 1] = " " THEN SignificantAfter(s, k + 1)
    ELSE s[k + 1]

\* In the argument list, between `.m(` and the first `)`, a separator is
\* followed, apart from junk, by a separator or by the closing `)`.
EmptyArgument ==
    /\ Len(input) >= 3 /\ SubSeq(input, 1, 3) = <<".", "m", "(">>
    /\ FirstOf(input, ")") > 0
    /\ \E k \in 4..(FirstOf(input, ")") - 1) :
           /\ input[k] \in {",", ";"}
           /\ SignificantAfter(input, k) \in {",", ";", ")"}

\* C15: a mixin call whose argument list has a `,` or `;` that is followed,
\* apart from junk, by another separator or by the closing `)` is an error;
\* a trailing separator is never accepted.
C15_EmptyArgumentIsAnError ==
    (pc = "mixin_call" /\ EmptyArgument) => parsed.st # "ok"

----------------------------------------------------------------------------
(* Variables and lookups *)

\* variable_or_lookup(input)
VariableOrLookup ==
    /\ pc = "start"
    /\ parsed' = applied("variable_or_lookup", input, 0)
    /\ pc' = "variable_or_lookup"
    /\ UNCHANGED <<input, lexed, pick, relexed, stream, ideal, tokenizer>>

NextLookup == VariableOrLookup

\* A variable, then brackets and what a lookup may hold.
LookupTexts ==
    {<<"@", "a">> \o t :
        t \in Concats({<<"[">>, <<"]">>, <<"b">>, <<"$">>, <<"@">>, <<" ">>}, MaxWords)}

SpecLookup == InitWith(LookupTexts) /\ [][NextLookup]_vars

\* The input is `@a[` and a lookup body with no closing `]`.
UnclosedLookup ==
    /\ Len(input) >= 3 /\ input[3] = "["
    /\ \A k \in 1..Len(input) : input[k] # "]"

\* C16: for `@name[` and a body in which the closing `]` is missing,
\* variable_or_lookup reports an error.
C16_UnclosedLookupIsAnError ==
    (pc = "variable_or_lookup" /\ UnclosedLookup) => parsed.st # "ok"

----------------------------------------------------------------------------
(* Call arguments from argument slots *)

\* mixin_call_arguments(input)
MixinCallArguments ==
    /\ pc = "start"
    /\ parsed' = applied("mixin_call_arguments", input, 0)
    /\ pc' = "call_arguments"
    /\ UNCHANGED <<input, lexed, pick, relexed, stream, ideal, tokenizer>>

NextCallArguments == MixinCallArguments

\* Slots that are positional, named with and without a value, and variadic.
SlotWords ==
    {<<"a">>, <<"@", "x">>, <<",", "b">>, <<",", "@", "y", ":", "b">>, <<";">>,
     <<",", "@", "r", ".", ".", ".">>}

SlotTexts == Concats(SlotWords, MaxWords)

SpecSlots == InitWith(SlotTexts) /\ [][NextCallArguments]_vars

\* The slots mixin_arguments reads from the input.
Slots == applied("mixin_arguments", input, 0)

\* The call argument a slot stands for.
CallArgumentOf(slot) ==
    IF slot.arg = "Variable" /\ slot.value.some
    THEN MixinCallArgument(Some(slot.name), slot.value.v)
    ELSE IF slot.arg = "Variable"
    THEN MixinCallArgument(None, ExprNamed("Variable", slot.name))
    ELSE MixinCallArgument(None, slot.value)

\* C17: when mixin_arguments reads slots, mixin_call_arguments fails if a
\* slot is variadic, and otherwise returns one call argument for each slot,
\* in the order of the slots: a named slot with a value keeps name and
\* value, a named slot without a value becomes the positional Variable(name),
\* a positional slot keeps its value with no name.
C17_CallArgumentsFollowTheSlots ==
    pc = "call_arguments" =>
        LET slots == Slots
        IN  slots.st = "ok" =>
                IF \E k \in 1..Len(slots.val) : slots.val[k].arg = "Variadic"
                THEN parsed.st # "ok"
                ELSE /\ parsed.st = "ok"
                     /\ parsed.pos = slots.pos
                     /\ Len(parsed.val) = Len(slots.val)
                     /\ \A k \in 1..Len(slots.val) :
                           parsed.val[k] = CallArgumentOf(slots.val[k])

\* A named slot with a value, a named slot without one and a positional
\* slot in one list.
C17_Witness ==
    /\ pc = "call_arguments" /\ parsed.st = "ok" /\ Len(parsed.val) >= 3
    /\ \E k \in 1..Len(parsed.val) : parsed.val[k].name.some
    /\ \E k \in 1..Len(parsed.val) :
          ~parsed.val[k].name.some /\ parsed.val[k].value.e = "Variable"
    /\ \E k \in 1..Len(parsed.val) :
          ~parsed.val[k].name.some /\ parsed.val[k].value.e # "Variable"

\* A list with a variadic slot.
C17_WitnessVariadic ==
    /\ pc = "call_arguments" /\ parsed.st # "ok"
    /\ LET slots == Slots
       IN  slots.st = "ok" /\ \E k \in 1..Len(slots.val) : slots.val[k].arg = "Variadic"

----------------------------------------------------------------------------
(* Digit runs *)

\* Numbers whose digit runs are at, above and below u32::MAX.
NumberTexts ==
    Concats({U32MaxDigits, <<"4", "2", "9", "4", "9", "6", "7", "2", "9", "6">>, <<"7">>,
             <<"0">>, <<".">>, <<"e">>, <<"-">>, <<" ">>}, MaxTokLen)

SpecNumber == InitWith(NumberTexts) /\ [][NextLex]_vars

\* C18: for every input the lexer returns token-trees or an error value and
\* never aborts, also when a digit run of a number has a value above 2^32-1.
C18_DigitRunsNeverAbort ==
    pc = "lexed" => lexed.st \in {"ok", "err"}

----------------------------------------------------------------------------
(* Interpolated strings *)

\* string('"')(input)
StringExpression ==
    /\ pc = "start"
    /\ parsed' = string_expr("\"", input, 0)
    /\ pc' = "string"
    /\ UNCHANGED <<input, lexed, pick, relexed, stream, ideal, tokenizer>>

NextString == StringExpression

\* After the opening quote: text, interpolations whole and broken, quotes.
InterpolationTexts ==
    {<<"\"">> \o t :
        t \in Concats({<<"\"">>, <<"a">>, <<" ">>, <<"@", "{", "x", "}">>, <<"$", "{", "y", "}">>,
                       <<"@", "{">>, <<"}">>}, MaxWords)}

SpecInterpolation == InitWith(InterpolationTexts) /\ [][NextString]_vars

\* An interpolation as it is written.
WrittenInterpolation(v) ==
    (IF v.kind = "Variable" THEN <<"@", "{">> ELSE <<"$", "{">>) \o v.name \o <<"}">>

\* The parts and the interpolations read alternately, a part first.
RECURSIVE ReadAlternately(_, _)
ReadAlternately(strings, values) ==
    IF strings = <<>> THEN <<>>
    ELSE IF values = <<>> THEN Head(strings)
    ELSE Head(strings) \o WrittenInterpolation(Head(values))
             \o ReadAlternately(Tail(strings), Tail(values))

\* C19: every InterpolatedString that string(quote) returns has one part
\* more than it has interpolations, at least one interpolation, and its
\* parts and interpolations read alternately are the text between the quotes.
C19_PartsAroundInterpolations ==
    (pc = "string" /\ parsed.st = "ok" /\ parsed.val.e = "InterpolatedString") =>
        /\ Len(parsed.val.strings) = Len(parsed.val.values) + 1
        /\ Len(parsed.val.values) >= 1
        /\ ReadAlternately(parsed.val.strings, parsed.val.values)
              = Slice(input, 1, parsed.pos - 1)

\* Two interpolations with text before, between or after them.
C19_Witness ==
    /\ pc = "string" /\ parsed.st = "ok" /\ parsed.val.e = "InterpolatedString"
    /\ Len(parsed.val.values) = 2
    /\ \E k \in 1..3 : parsed.val.strings[k] # <<>>

----------------------------------------------------------------------------
(* src/src/parser/selector.rs and the From conversions of src/src/ast.rs *)

\* The longest selector text, in words after the opening.
MaxParts == 3

\* A failed assertion of a From conversion.
Panicked == [st |-> "panic", pos |-> 0, val |-> <<>>]

\* into(f) for a conversion that asserts: r is the result of f, from the
\* conversion, which yields Panicked's value <<>> when an assertion fails.
Asserted(v) == [asserted |-> v]

\* impl From<Vec<SimpleSelector>> for SimpleSelectorSequence
simple_selector_sequence_from(value) ==
    IF Len(value) = 0 THEN Panicked ELSE Asserted([simple |-> value])

\* impl From<(Vec<SimpleSelectorSequence>, Vec<Combinator>)> for Selector
selector_from(value) ==
    IF Len(value[1]) = 0 THEN Panicked
    ELSE IF Len(value[1]) # Len(value[2]) + 1 THEN Panicked
    ELSE Asserted([sequences |-> value[1], combinators |-> value[2]])

\* impl From<Vec<Selector>> for SelectorGroup
selector_group_from(value) ==
    IF Len(value) = 0 THEN Panicked ELSE Asserted([selectors |-> value])

\* into(f): r is the result of f, converted the result of the conversion.
into(r, converted) ==
    IF r.st # "ok" THEN r
    ELSE IF converted = Panicked THEN Panicked
    ELSE Ok(r.pos, converted.asserted)

\* map of a parser's value
valued(v, r) == IF r.st = "ok" THEN Ok(r.pos, v) ELSE r

type_selector(s, o) ==
    LET on_n(n) == IF n.st = "ok" THEN Ok(n.pos, SimpleSelector("Type", n.val)) ELSE n
    IN  on_n(lexer_ident(s, o))

universal_selector(s, o) == valued(SimpleSelector("Universal", <<>>), tag(<<"*">>, s, o))

pseudo_class_selector(s, o) ==
    LET on_n(n) == IF n.st = "ok" THEN Ok(n.pos, SimpleSelector("PseudoClass", n.val)) ELSE n
    IN  on_n(prefixed_ident(<<":">>, s, o))

pseudo_element_selector(s, o) ==
    LET on_n(n) == IF n.st = "ok" THEN Ok(n.pos, SimpleSelector("PseudoElement", n.val)) ELSE n
    IN  on_n(prefixed_ident(<<":", ":">>, s, o))

\* tag_no_case(":not(")
tag_no_case_not(s, o) ==
    IF /\ At(s, o) = ":" /\ At(s, o + 1) \in {"n", "N"} /\ At(s, o + 2) \in {"o", "O"}
       /\ At(s, o + 3) \in {"t", "T"} /\ At(s, o + 4) = "("
    THEN Ok(o + 5, Slice(s, o, o + 5))
    ELSE Fail

negation_argument(s, o) ==
    choice(<<type_selector(s, o), universal_selector(s, o), id_selector(s, o),
             class_selector(s, o), pseudo_element_selector(s, o),
             pseudo_class_selector(s, o)>>)

\* preceded(token(tag_no_case(":not(")), cut(terminated(token(alt(...)), tag(")"))))
negation_selector(s, o) ==
    LET on_a(a) ==
            IF a.st # "ok" THEN a
            ELSE IF At(s, a.pos) = ")"
                 THEN Ok(a.pos + 1, SimpleSelector("Negation", a.val))
                 ELSE Fail
        on_t(t) ==
            IF t.st # "ok" THEN t
            ELSE cut(on_a(token_junk(s, negation_argument(s, t.pos))))
    IN  on_t(token_junk(s, tag_no_case_not(s, o)))

simple_selector_first(s, o) ==
    choice(<<type_selector(s, o), universal_selector(s, o), id_selector(s, o),
             class_selector(s, o), negation_selector(s, o),
             pseudo_element_selector(s, o), pseudo_class_selector(s, o)>>)

simple_selector_more(s, o) ==
    choice(<<id_selector(s, o), class_selector(s, o), negation_selector(s, o),
             pseudo_element_selector(s, o), pseudo_class_selector(s, o)>>)

\* fold_many0(alt(...), move || vec![first.clone()], push)
RECURSIVE simple_selector_fold(_, _, _)
simple_selector_fold(s, o, acc) ==
    LET on_n(n) ==
        IF n.st = "fail" THEN Ok(o, acc)
        ELSE IF n.st # "ok" THEN n
        ELSE simple_selector_fold(s, n.pos, Append(acc, n.val))
    IN  on_n(simple_selector_more(s, o))

simple_selector_sequence(s, o) ==
    LET on_r(r) == into(r, simple_selector_sequence_from(r.val))
        on_f(f) ==
            IF f.st # "ok" THEN f
            ELSE on_r(simple_selector_fold(s, f.pos, <<f.val>>))
    IN  on_f(simple_selector_first(s, o))

\* crate::lexer::parse(symbol(t)): the junk before the symbol is skipped.
parse_symbol(t, s, o) ==
    LET on_j(j) == IF j.st # "ok" THEN j ELSE symbol(t, s, j.pos)
    IN  on_j(junk0(s, o))

\* many1(junk)
junk1(s, o) ==
    LET on_j(j) == IF j.st # "ok" THEN j ELSE junk0(s, j.pos)
    IN  on_j(junk(s, o))

combinator(s, o) ==
    choice(<<valued("Child", parse_symbol(<<">">>, s, o)),
             valued("NextSibling", parse_symbol(<<"+">>, s, o)),
             valued("SubsequentSibling", parse_symbol(<<"~">>, s, o)),
             valued("Descendant", junk1(s, o))>>)

\* pair(combinator, simple_selector_sequence)
selector_pair(s, o) ==
    LET on_c(c) ==
        IF c.st # "ok" THEN c
        ELSE LET on_q(q) == IF q.st # "ok" THEN q ELSE Ok(q.pos, <<c.val, q.val>>)
             IN  on_q(simple_selector_sequence(s, c.pos))
    IN  on_c(combinator(s, o))

selector_init_without_first(first) == <<(<<>>), (<<>>)>>

\* move || (vec![first.clone()], vec![])
selector_init(first) == <<(<<first>>), (<<>>)>>

\* acc.0.push(s); acc.1.push(c)
selector_push(acc, c, q) == <<Append(acc[1], q), Append(acc[2], c)>>

\* fold_many0(pair(combinator, simple_selector_sequence), init, push)
RECURSIVE selector_fold(_, _, _)
selector_fold(s, o, acc) ==
    LET on_n(n) ==
        IF n.st = "fail" THEN Ok(o, acc)
        ELSE IF n.st # "ok" THEN n
        ELSE selector_fold(s, n.pos, selector_push(acc, n.val[1], n.val[2]))
    IN  on_n(selector_pair(s, o))

selector(s, o) ==
    LET on_r(r) == token_junk(s, into(r, selector_from(r.val)))
        on_f(f) ==
            IF f.st # "ok" THEN f
            ELSE on_r(selector_fold(s, f.pos, selector_init(f.val)))
    IN  on_f(simple_selector_sequence(s, o))

\* separated_list1(symbol(","), selector) after its first element
RECURSIVE selector_list(_, _, _)
selector_list(s, o, acc) ==
    LET on_e(e) ==
            IF e.st = "fail" THEN Ok(o, acc)
            ELSE IF e.st # "ok" THEN e
            ELSE selector_list(s, e.pos, Append(acc, e.val))
        on_c(c) ==
            IF c.st = "fail" THEN Ok(o, acc)
            ELSE IF c.st # "ok" THEN c
            ELSE on_e(selector(s, c.pos))
    IN  on_c(symbol(<<",">>, s, o))

selector_group(s, o) ==
    LET on_r(r) == into(r, selector_group_from(r.val))
        on_f(f) ==
            IF f.st # "ok" THEN f
            ELSE on_r(selector_list(s, f.pos, <<f.val>>))
    IN  on_f(selector(s, o))

\* selector_group(input)
SelectorGroupText ==
    /\ pc = "start"
    /\ parsed' = selector_group(input, 0)
    /\ pc' = "selector_group"
    /\ UNCHANGED <<input, lexed, pick, relexed, stream, ideal, tokenizer>>

NextSelector == SelectorGroupText

SelectorWords ==
    {<<"a">>, <<".", "b">>, <<"*">>, <<":", ":", "e">>,
     <<":", "N", "o", "t", "(", " ", "#", "c", ")">>, <<":", "n", "o", "t", "(">>,
     <<" ">>, <<">">>, <<"~">>, <<",">>}

SelectorTexts ==
    {p \o t : p \in {<<>>, <<"a", ":", "h", ">", ".", "b">>,
                     <<"a", ">", ".", "b", " ", "+", " ", "*">>},
              t \in Concats(SelectorWords, MaxParts)}

SpecSelector == InitWith(SelectorTexts) /\ [][NextSelector]_vars

\* The combinator written at offset o: its first character after the junk
\* names it, and junk alone is the descendant combinator.
CombinatorWritten(s, o) ==
    LET on_j(j) ==
        IF At(s, j) = ">" THEN "Child"
        ELSE IF At(s, j) = "+" THEN "NextSibling"
        ELSE IF At(s, j) = "~" THEN "SubsequentSibling"
        ELSE "Descendant"
    IN  on_j(junk0(s, o).pos)

\* Where the sequence after the combinator written at o starts.
AfterCombinator(s, o) ==
    LET on_j(j) == IF At(s, j) \in {">", "+", "~"} THEN junk0(s, j + 1).pos ELSE j
    IN  on_j(junk0(s, o).pos)

\* From sequence i, which starts at offset o: every sequence is the one
\* written there and every combinator the one written after it.
RECURSIVE SequencesAsWritten(_, _, _, _)
SequencesAsWritten(sel, s, o, i) ==
    LET on_q(q) ==
        /\ q.st = "ok"
        /\ q.val = sel.sequences[i]
        /\ i < Len(sel.sequences) =>
              /\ sel.combinators[i] = CombinatorWritten(s, q.pos)
              /\ SequencesAsWritten(sel, s, AfterCombinator(s, q.pos), i + 1)
    IN  on_q(simple_selector_sequence(s, o))

\* Where the selector written at o ends, the junk after it included.
SelectorEnd(s, o) == selector(s, o).pos

\* From selector k, which starts at offset o.
RECURSIVE SelectorsAsWritten(_, _, _, _)
SelectorsAsWritten(sels, s, o, k) ==
    /\ Len(sels[k].sequences) >= 1
    /\ Len(sels[k].combinators) = Len(sels[k].sequences) - 1
    /\ \A i \in 1..Len(sels[k].sequences) : Len(sels[k].sequences[i].simple) >= 1
    /\ SequencesAsWritten(sels[k], s, o, 1)
    /\ k < Len(sels) =>
          SelectorsAsWritten(sels, s, symbol(<<",">>, s, SelectorEnd(s, o)).pos, k + 1)

\* C20: selector_group never fails an assertion of the From conversions;
\* the group it returns is non-empty, every selector has at least one
\* sequence and one combinator fewer than sequences, every sequence is
\* non-empty, and combinator i is the one written between sequence i and
\* sequence i + 1.
C20_SelectorGroupAssertionsHold ==
    pc = "selector_group" =>
        /\ parsed.st # "panic"
        /\ parsed.st = "ok" =>
              /\ Len(parsed.val.selectors) >= 1
              /\ SelectorsAsWritten(parsed.val.selectors, input, 0, 1)

\* Two selectors, one of them with three sequences and two different combinators.
C20_Witness ==
    /\ pc = "selector_group" /\ parsed.st = "ok"
    /\ Len(parsed.val.selectors) >= 2
    /\ \E k \in 1..Len(parsed.val.selectors) :
          /\ Len(parsed.val.selectors[k].sequences) = 3
          /\ parsed.val.selectors[k].combinators[1] # parsed.val.selectors[k].combinators[2]

====
